---- MODULE Spec2Model ----
(***************************************************************************)
(* Search-based test generation core of Whisker: the many-objective        *)
(* sorting algorithm MOSA (search/algorithms/MOSA) and the random test     *)
(* generator (testgenerator/RandomTestGenerator), as state machines.       *)
(*                                                                         *)
(* A chromosome is an object: MOSA observes only its identity (===, Map    *)
(* keys, List.contains), its fitness per goal (getFitness) and its length  *)
(* (getLength).  It is the record [id, fit, len]: id is the identity, fit  *)
(* the fitness value per fitness-function key, len the number of genes.    *)
(***************************************************************************)
EXTENDS Integers, Sequences, FiniteSets, TLC

(***************************************************************************)
(* Bounds of the model.                                                    *)
(***************************************************************************)
\* largest population size and FixedIterations budget drawn when crossover
\* and mutation can happen
MaxPopulationSize == 2
MaxIterations == 2
\* largest population size and FixedIterations budget drawn when the
\* crossover and mutation probabilities are 0
MaxCloningPopulationSize == 4
MaxCloningIterations == 1
\* the largest population of a search checked for termination
MaxFairPopulationSize == 1
\* largest FixedIterations budget of a random test generation
MaxRandomIterations == 3
\* largest FixedIterations budget of a search whose evaluations can throw
MaxFailingIterations == 1
\* longest parent of a crossover
MaxGenes == 4
\* the relative cut points drawn are the multiples of 1/SplitResolution
\* inside (0, 1)
SplitResolution == 12

(***************************************************************************)
(* Small arithmetic helpers.                                               *)
(***************************************************************************)
SetMax(S) == CHOOSE x \in S : \A y \in S : y <= x
SetMin(S) == CHOOSE x \in S : \A y \in S : x <= y

\* the function f, tabulated once (TLC evaluates [x \in S |-> e] anew at
\* every application)
RECURSIVE tabulate(_, _)
tabulate(f, D) ==
    IF D = {} THEN <<>>
    ELSE LET x == CHOOSE y \in D : TRUE
         IN  (x :> f[x]) @@ tabulate(f, D \ {x})

(***************************************************************************)
(* Fitness functions.  The map _fitnessFunctions has the keys 1 and 2 in   *)
(* insertion order; each maps a chromosome to a value of FitnessValues,    *)
(* higher is better, the largest value is the optimum.                     *)
(***************************************************************************)
FitnessFunctionKeys == <<1, 2>>
Goals == {FitnessFunctionKeys[i] : i \in DOMAIN FitnessFunctionKeys}
FitnessValues == 0 .. 2
Lengths == 1 .. 2

getFitness(key, chromosome) == chromosome.fit[key]
getLength(chromosome) == chromosome.len
compare(value1, value2) ==
    IF value1 > value2 THEN 1 ELSE IF value1 < value2 THEN -1 ELSE 0
isOptimal(fitnessValue) == fitnessValue = SetMax(FitnessValues)
isCovered(key, chromosome) == isOptimal(getFitness(key, chromosome))

\* Number.MAX_SAFE_INTEGER: the length no chromosome reaches (TLC's integers
\* are 32 bits wide; every length of the model is far below either value)
MAX_SAFE_INTEGER == 2147483647

(***************************************************************************)
(* A genotype is what MOSA observes of a chromosome's genes: its fitness   *)
(* vector and its length.  A chromosome generator (with the mutation and   *)
(* crossover operators it hands to its chromosomes) is the set of          *)
(* genotypes it can produce.                                               *)
(***************************************************************************)
\* reaches the optimum of both goals, with chromosomes of both lengths
CoveringGenerator ==
    { [fit |-> <<1, 0>>, len |-> 1],
      [fit |-> <<0, 1>>, len |-> 2],
      [fit |-> <<2, 0>>, len |-> 2],
      [fit |-> <<2, 2>>, len |-> 1] }
\* never reaches an optimum; its genotypes form a chain under dominance
ApproachingGenerator ==
    { [fit |-> <<0, 0>>, len |-> 1],
      [fit |-> <<1, 0>>, len |-> 2],
      [fit |-> <<1, 1>>, len |-> 1] }

\* one genotype that covers the first goal, and one whose evaluation fails:
\* it has no fitness value
FailingGenerator ==
    { [fit |-> <<2, 0>>, len |-> 1],
      [fit |-> <<>>, len |-> 1] }

\* every chromosome value a claim may quantify over (identity 0 is never
\* allocated to an object of a run)
AllChromosomes ==
    { [id |-> 0, fit |-> <<f1, f2>>, len |-> l] :
        f1 \in FitnessValues, f2 \in FitnessValues, l \in Lengths }

(***************************************************************************)
(* utils/List: an array with identity-based contains / remove / distinct.  *)
(***************************************************************************)
contains(list, item) == \E i \in DOMAIN list : list[i] = item

indexOf(list, item) ==
    IF contains(list, item)
    THEN SetMin({i \in DOMAIN list : list[i] = item})
    ELSE 0

\* removes the first occurrence only
remove(list, item) ==
    LET k == indexOf(list, item) IN
    IF k = 0 THEN list
    ELSE SubSeq(list, 1, k - 1) \o SubSeq(list, k + 1, Len(list))

RECURSIVE distinctFrom(_, _, _)
distinctFrom(list, i, acc) ==
    IF i > Len(list) THEN acc
    ELSE distinctFrom(list, i + 1,
                      IF contains(acc, list[i]) THEN acc ELSE Append(acc, list[i]))
distinct(list) == distinctFrom(list, 1, <<>>)

reverse(list) == [i \in DOMAIN list |-> list[Len(list) + 1 - i]]

\* subList(from, to) with 0-based from (inclusive) and to (exclusive)
subList(list, from, to) == SubSeq(list, from + 1, to)

RECURSIVE filterFrom(_, _, _, _)
filterFrom(list, keep, i, acc) ==
    IF i > Len(list) THEN acc
    ELSE filterFrom(list, keep, i + 1,
                    IF i \in keep THEN Append(acc, list[i]) ELSE acc)
\* the elements at the positions of keep, in list order
filter(list, keep) == filterFrom(list, keep, 1, <<>>)

RECURSIVE flatten(_)
flatten(lists) ==
    IF Len(lists) = 0 THEN <<>> ELSE Head(lists) \o flatten(Tail(lists))

Elems(list) == {list[i] : i \in DOMAIN list}
Count(list, item) == Cardinality({i \in DOMAIN list : list[i] = item})

(***************************************************************************)
(* The archive: a JavaScript Map from fitness-function key to chromosome,  *)
(* a sequence of entries in insertion order.                               *)
(***************************************************************************)
MapHas(map, key) == \E i \in DOMAIN map : map[i].key = key
MapGet(map, key) == map[CHOOSE i \in DOMAIN map : map[i].key = key].value
MapSet(map, key, value) ==
    IF MapHas(map, key)
    THEN [i \in DOMAIN map |->
            IF map[i].key = key THEN [key |-> key, value |-> value] ELSE map[i]]
    ELSE Append(map, [key |-> key, value |-> value])
MapValues(map) == [i \in DOMAIN map |-> map[i].value]
MapKeys(map) == {map[i].key : i \in DOMAIN map}

(***************************************************************************)
(* MOSA.updateArchive                                                      *)
(***************************************************************************)
\* faulty variants of the condition: a candidate of equal length is taken;
\* a candidate that is not optimal is taken
archiveAcceptsShorterOrEqual(candidateFitness, candidateLength, bestLength) ==
    isOptimal(candidateFitness) /\ candidateLength <= bestLength
archiveAcceptsAnyFitness(candidateFitness, candidateLength, bestLength) ==
    candidateLength < bestLength
\* the condition of line 234
archiveAccepts(candidateFitness, candidateLength, bestLength) ==
    isOptimal(candidateFitness) /\ candidateLength < bestLength

RECURSIVE updateArchiveCandidates(_, _, _, _, _)
updateArchiveCandidates(archive0, key, chromosomes0, i, bestLength) ==
    IF i > Len(chromosomes0) THEN archive0
    ELSE LET candidateChromosome == chromosomes0[i]
             candidateFitness == getFitness(key, candidateChromosome)
             candidateLength == getLength(candidateChromosome)
         IN  IF archiveAccepts(candidateFitness, candidateLength, bestLength)
             THEN updateArchiveCandidates(
                      MapSet(archive0, key, candidateChromosome),
                      key, chromosomes0, i + 1, candidateLength)
             ELSE updateArchiveCandidates(archive0, key, chromosomes0, i + 1,
                                          bestLength)

RECURSIVE updateArchiveKeys(_, _, _)
updateArchiveKeys(archive0, chromosomes0, k) ==
    IF k > Len(FitnessFunctionKeys) THEN archive0
    ELSE LET key == FitnessFunctionKeys[k]
             bestLength == IF MapHas(archive0, key)
                           THEN getLength(MapGet(archive0, key))
                           ELSE MAX_SAFE_INTEGER
         IN  updateArchiveKeys(
                 updateArchiveCandidates(archive0, key, chromosomes0, 1, bestLength),
                 chromosomes0, k + 1)

\* faulty variant: the archive is emptied before every update
updateArchiveFromEmpty(archive0, chromosomes0) ==
    updateArchiveKeys(<<>>, chromosomes0, 1)
updateArchive(archive0, chromosomes0) ==
    updateArchiveKeys(archive0, chromosomes0, 1)

(***************************************************************************)
(* MOSA.dominates: over the keys without an archive entry.                 *)
(***************************************************************************)
RECURSIVE dominatesFrom(_, _, _, _, _)
dominatesFrom(chromosome1, chromosome2, archive0, k, dominatesAtLeastOnce) ==
    IF k > Len(FitnessFunctionKeys) THEN dominatesAtLeastOnce
    ELSE LET key == FitnessFunctionKeys[k] IN
         IF MapHas(archive0, key)
         THEN dominatesFrom(chromosome1, chromosome2, archive0, k + 1,
                            dominatesAtLeastOnce)
         ELSE LET compareValue == compare(getFitness(key, chromosome1),
                                          getFitness(key, chromosome2))
              IN  IF compareValue < 0 THEN FALSE
                  ELSE dominatesFrom(chromosome1, chromosome2, archive0, k + 1,
                                     dominatesAtLeastOnce \/ compareValue > 0)

\* faulty variants: covered goals are compared too; a chromosome that is
\* nowhere strictly better dominates
dominatesIgnoringArchive(chromosome1, chromosome2, archive0) ==
    dominatesFrom(chromosome1, chromosome2, <<>>, 1, FALSE)
dominatesWeakly(chromosome1, chromosome2, archive0) ==
    dominatesFrom(chromosome1, chromosome2, archive0, 1, TRUE)
dominates(chromosome1, chromosome2, archive0) ==
    dominatesFrom(chromosome1, chromosome2, archive0, 1, FALSE)

(***************************************************************************)
(* MOSA.fastNonDominatedSorting.  dominatedValues and dominationCount are  *)
(* Maps keyed by the chromosome object: an object that occurs twice in the *)
(* list has one entry in each.                                             *)
(***************************************************************************)
\* lines 295-303 for one p: the q of the list (with repetition) p dominates
dominatedValuesOf(p, chromosomes0, archive0) ==
    filter(chromosomes0,
           {j \in DOMAIN chromosomes0 : dominates(p, chromosomes0[j], archive0)})

\* lines 296-303 for one p: the positions whose chromosome dominates p
dominationCountOf(p, chromosomes0, archive0) ==
    Cardinality({j \in DOMAIN chromosomes0 :
                    /\ ~dominates(p, chromosomes0[j], archive0)
                    /\ dominates(chromosomes0[j], p, archive0)})

\* lines 315-321 for the q visited from one front, in visiting order
RECURSIVE decrementCounts(_, _, _, _)
decrementCounts(visited, i, dominationCount, nextFront) ==
    IF i > Len(visited) THEN [count |-> dominationCount, front |-> nextFront]
    ELSE LET q == visited[i]
             dominationCountQ == dominationCount[q] - 1
         IN  decrementCounts(visited, i + 1,
                             [dominationCount EXCEPT ![q] = dominationCountQ],
                             IF dominationCountQ = 0 THEN Append(nextFront, q)
                                                     ELSE nextFront)

\* the while loop of lines 311-324
RECURSIVE collectFronts(_, _, _, _)
collectFronts(currentFront, dominatedValues, dominationCount, fronts0) ==
    IF Len(currentFront) = 0 THEN fronts0
    ELSE LET visited == flatten([i \in DOMAIN currentFront |->
                                    dominatedValues[currentFront[i]]])
             next == decrementCounts(visited, 1, dominationCount, <<>>)
         IN  collectFronts(next.front, dominatedValues, next.count,
                           Append(fronts0, currentFront))

fastNonDominatedSorting(chromosomes0, archive0) ==
    LET objects == Elems(chromosomes0)
        dominatedValues ==
            tabulate([p \in objects |->
                         dominatedValuesOf(p, chromosomes0, archive0)], objects)
        dominationCount ==
            tabulate([p \in objects |->
                         dominationCountOf(p, chromosomes0, archive0)], objects)
        firstFront == filter(chromosomes0,
                             {i \in DOMAIN chromosomes0 :
                                 dominationCount[chromosomes0[i]] = 0})
    IN  collectFronts(firstFront, dominatedValues, dominationCount, <<>>)

(***************************************************************************)
(* MOSA.preferenceSorting                                                  *)
(***************************************************************************)
\* faulty variant of the condition: the length does not break ties
preferredOverIgnoringLength(compareValue, candidateLength, bestLength) ==
    compareValue > 0
\* the condition of lines 260-261
preferredOver(compareValue, candidateLength, bestLength) ==
    compareValue > 0 \/ (compareValue = 0 /\ candidateLength < bestLength)

\* lines 257-265
RECURSIVE bestChromosomeFrom(_, _, _, _)
bestChromosomeFrom(key, chromosomes0, i, bestChromosome) ==
    IF i > Len(chromosomes0) THEN bestChromosome
    ELSE LET candidateChromosome == chromosomes0[i]
             compareValue == compare(getFitness(key, candidateChromosome),
                                     getFitness(key, bestChromosome))
         IN  bestChromosomeFrom(key, chromosomes0, i + 1,
                 IF preferredOver(compareValue, getLength(candidateChromosome),
                                  getLength(bestChromosome))
                 THEN candidateChromosome ELSE bestChromosome)

\* lines 252-271: the best front and the chromosomes left for the
\* non-dominated sorting
RECURSIVE preferenceKeys(_, _, _, _, _)
preferenceKeys(chromosomes0, archive0, k, bestFront0, rest) ==
    IF k > Len(FitnessFunctionKeys) THEN [bestFront |-> bestFront0, rest |-> rest]
    ELSE LET key == FitnessFunctionKeys[k] IN
         IF MapHas(archive0, key)
         THEN preferenceKeys(chromosomes0, archive0, k + 1, bestFront0, rest)
         ELSE LET bestChromosome ==
                      bestChromosomeFrom(key, chromosomes0, 2, chromosomes0[1])
              IN  IF contains(bestFront0, bestChromosome)
                  THEN preferenceKeys(chromosomes0, archive0, k + 1, bestFront0, rest)
                  ELSE preferenceKeys(chromosomes0, archive0, k + 1,
                                      Append(bestFront0, bestChromosome),
                                      remove(rest, bestChromosome))

preferenceBestFront(chromosomes0, archive0) ==
    preferenceKeys(chromosomes0, archive0, 1, <<>>, chromosomes0).bestFront

\* faulty variant: a best front of populationSize chromosomes already
\* keeps the rest from being sorted
preferenceSortingAtLeast(chromosomes0, archive0, populationSize0) ==
    LET split == preferenceKeys(chromosomes0, archive0, 1, <<>>, chromosomes0)
        first == IF Len(split.bestFront) > 0 THEN <<split.bestFront>> ELSE <<>>
    IN  IF Len(split.bestFront) >= populationSize0
        THEN Append(first, split.rest)
        ELSE first \o fastNonDominatedSorting(split.rest, archive0)
\* lines 248-281
preferenceSorting(chromosomes0, archive0, populationSize0) ==
    LET split == preferenceKeys(chromosomes0, archive0, 1, <<>>, chromosomes0)
        first == IF Len(split.bestFront) > 0 THEN <<split.bestFront>> ELSE <<>>
    IN  IF Len(split.bestFront) > populationSize0
        THEN Append(first, split.rest)
        ELSE first \o fastNonDominatedSorting(split.rest, archive0)

(***************************************************************************)
(* MOSA.calculateSVD and MOSA.subVectorDominanceSorting                    *)
(***************************************************************************)
\* faulty variant: the goals on which chromosome1 is the better one count
calculateSVDOfFirst(chromosome1, chromosome2) ==
    Cardinality({key \in Goals :
        compare(getFitness(key, chromosome1), getFitness(key, chromosome2)) > 0})
\* lines 384-395
calculateSVD(chromosome1, chromosome2) ==
    Cardinality({key \in Goals :
        compare(getFitness(key, chromosome1), getFitness(key, chromosome2)) < 0})

\* lines 360-370: the distance of chromosome1 within the front
svdDistance(chromosome1, front) ==
    SetMax({0} \cup {calculateSVD(chromosome1, front[j]) :
                        j \in {i \in DOMAIN front : front[i] # chromosome1}})

\* the distance of every position of the front
svdDistances(front) ==
    tabulate([i \in DOMAIN front |-> svdDistance(front[i], front)], DOMAIN front)

\* shuffle, then sort ascending by distance, then subList(0, n): the ties
\* are in the order the shuffle left them, so every order of a tie can come
RECURSIVE sortedPrefixes(_, _, _, _)
sortedPrefixes(front, distances, remaining, n) ==
    IF n = 0 \/ remaining = {} THEN {<<>>}
    ELSE LET least == SetMin({distances[i] : i \in remaining})
             next == {i \in remaining : distances[i] = least}
         IN  UNION {{<<front[i]>> \o s :
                        s \in sortedPrefixes(front, distances,
                                             remaining \ {i}, n - 1)} :
                    i \in next}

\* faulty variant: the front is shuffled and not sorted
RECURSIVE anyPrefixes(_, _, _)
anyPrefixes(front, remaining, n) ==
    IF n = 0 \/ remaining = {} THEN {<<>>}
    ELSE UNION {{<<front[i]>> \o s :
                    s \in anyPrefixes(front, remaining \ {i}, n - 1)} :
                i \in remaining}

subVectorDominanceSortingShuffleOnly(front, n) ==
    anyPrefixes(front, DOMAIN front, n)
\* the possible values of front.subList(0, n) after
\* subVectorDominanceSorting(front)
subVectorDominanceSorting(front, n) ==
    sortedPrefixes(front, svdDistances(front), DOMAIN front, n)

\* lines 151-160: the possible next parent populations
RECURSIVE survivors(_, _, _, _)
survivors(fronts0, i, population, populationSize0) ==
    IF i > Len(fronts0) THEN {population}
    ELSE LET front == fronts0[i] IN
         IF Len(population) + Len(front) <= populationSize0
         THEN UNION {survivors(fronts0, i + 1, population \o s, populationSize0) :
                        s \in subVectorDominanceSorting(front, Len(front))}
         ELSE {population \o s :
                  s \in subVectorDominanceSorting(
                            front, populationSize0 - Len(population))}

(***************************************************************************)
(* WhiskerSearchConfiguration                                              *)
(***************************************************************************)
\* A key of the dictionary is <<>> when it is missing and <<value>> when it
\* is there; probabilities are in percent.
PopulationSizes == {<<>>, <<0>>, <<1>>}
ChromosomeLengths == {<<0>>, <<1>>}
Probabilities == {<<>>, <<-50>>, <<50>>, <<150>>}
TournamentSizes == {<<>>, <<1>>, <<2>>}
SelectionOperatorNames == {<<>>, <<"rank">>, <<"tournament">>}
\* the values of the keys that choose an operator or a class: the names the
\* code knows, one it does not know, and none
MutationOperatorNames ==
    {<<>>, <<"bitflip">>, <<"variablelength">>, <<"integerlist">>, <<"swap">>}
CrossoverOperatorNames ==
    {<<>>, <<"singlepointrelative">>, <<"singlepoint">>, <<"uniform">>}
ChromosomeNames ==
    {<<>>, <<"bitstring">>, <<"integerlist">>, <<"variablelengthtest">>,
     <<"test">>, <<"tree">>}
FitnessFunctionNames ==
    {<<>>, <<"statement">>, <<"one-max">>, <<"single-bit">>, <<"branch">>}
AlgorithmNames ==
    {<<>>, <<"random">>, <<"one-plus-one">>, <<"simplega">>, <<"mosa">>,
     <<"mio">>, <<"nsga">>}
TestGeneratorNames ==
    {<<>>, <<"random">>, <<"iterative">>, <<"many-objective">>, <<"mosa">>}
\* the longest list of conditions of a 'one-of' stopping condition
MaxConditions == 2

\* a stopping-condition dictionary without conditions: 'fixed-iteration'
\* with iterations, 'fixed-time' with duration, 'optimal', a type that is
\* none of the four ('fixed-size'), and one without a type
StoppingConditionLeaf(type0) ==
    [type |-> type0,
     iterations |-> IF type0 = <<"fixed-iteration">> THEN <<1>> ELSE <<>>,
     duration |-> IF type0 = <<"fixed-time">> THEN <<2>> ELSE <<>>,
     conditions |-> <<>>]
StoppingConditionTypes ==
    {<<"fixed-iteration">>, <<"fixed-time">>, <<"optimal">>, <<"fixed-size">>,
     <<>>}
StoppingConditionLeaves ==
    {StoppingConditionLeaf(type0) : type0 \in StoppingConditionTypes}

\* a 'one-of' dictionary over a list of conditions
OneOfDictionary(conditions0) ==
    [type |-> <<"one-of">>, iterations |-> <<>>, duration |-> <<>>,
     conditions |-> conditions0]

\* the lists of at most MaxConditions conditions
ConditionLists(conditions0) ==
    UNION {[1 .. n -> conditions0] : n \in 0 .. MaxConditions}

\* the stopping-condition dictionaries: leaves, and 'one-of' over leaves and
\* over a 'one-of' of one leaf
StoppingConditionDictionaries ==
    StoppingConditionLeaves \cup
    {OneOfDictionary(conditions0) :
        conditions0 \in ConditionLists(
            StoppingConditionLeaves \cup
            {OneOfDictionary(<<StoppingConditionLeaf(type0)>>) :
                type0 \in {<<"optimal">>, <<"fixed-size">>}})}

\* the dictionary of a search with one chromosome and rank selection
DefaultConfiguration ==
    [populationSize |-> <<1>>, chromosomeLength |-> <<1>>,
     crossover |->
         <<[probability |-> <<50>>, operator |-> <<"singlepoint">>]>>,
     mutation |->
         <<[probability |-> <<50>>, operator |-> <<"integerlist">>,
            alpha |-> <<>>]>>,
     selection |-> <<[operator |-> <<"rank">>, tournamentSize |-> <<>>]>>,
     archive |-> <<"archive">>,
     stoppingCondition |-> <<StoppingConditionLeaf(<<"fixed-iteration">>)>>,
     integerRange |-> <<[min |-> <<0>>, max |-> <<9>>]>>,
     chromosome |-> <<"test">>, initVarLength |-> <<>>,
     fitnessFunction |-> <<[type |-> <<"statement">>]>>,
     algorithm |-> <<"mosa">>, testGenerator |-> <<"many-objective">>]

\* the dictionaries whose presence and ranges of values vary
ValidatedConfigurations ==
    {[DefaultConfiguration EXCEPT
          !.populationSize = size, !.chromosomeLength = length,
          !.crossover = crossover0, !.mutation = mutation0,
          !.selection = selection0, !.archive = archive0,
          !.stoppingCondition = condition] :
        size \in PopulationSizes,
        length \in ChromosomeLengths,
        crossover0 \in {<<>>} \cup
            {<<[DefaultConfiguration.crossover[1] EXCEPT !.probability = p]>> :
                p \in Probabilities},
        mutation0 \in {<<>>} \cup
            {<<[DefaultConfiguration.mutation[1] EXCEPT !.probability = p]>> :
                p \in Probabilities},
        selection0 \in {<<>>} \cup
            {<<[operator |-> name, tournamentSize |-> size0]>> :
                name \in SelectionOperatorNames, size0 \in TournamentSizes},
        archive0 \in {<<>>, <<"archive">>},
        condition \in {<<>>} \cup
            {<<StoppingConditionLeaf(type0)>> :
                type0 \in {<<"fixed-iteration">>, <<"fixed-size">>}}}

\* the dictionaries whose stopping condition varies
StoppingConfigurations ==
    {[DefaultConfiguration EXCEPT !.stoppingCondition = <<condition>>] :
        condition \in StoppingConditionDictionaries}

\* the dictionaries whose chromosome, operators and integer range vary
\* together (the chromosome generator is built from all of them)
GeneratorConfigurations ==
    {[DefaultConfiguration EXCEPT
          !.chromosome = chromosome0,
          !.mutation = <<[@[1] EXCEPT !.operator = mutation0]>>,
          !.crossover = <<[@[1] EXCEPT !.operator = crossover0]>>,
          !.integerRange = range] :
        chromosome0 \in ChromosomeNames,
        mutation0 \in MutationOperatorNames,
        crossover0 \in CrossoverOperatorNames,
        range \in {<<>>, DefaultConfiguration.integerRange}}

\* the dictionaries in which one of the other choices varies
ChoiceConfigurations ==
    {[DefaultConfiguration EXCEPT !.algorithm = name] :
        name \in AlgorithmNames} \cup
    {[DefaultConfiguration EXCEPT !.testGenerator = name] :
        name \in TestGeneratorNames} \cup
    {[DefaultConfiguration EXCEPT !.fitnessFunction = definition] :
        definition \in {<<>>} \cup
            {<<[type |-> name]>> : name \in FitnessFunctionNames}} \cup
    {[DefaultConfiguration EXCEPT
          !.selection = <<[@[1] EXCEPT !.operator = name]>>] :
        name \in SelectionOperatorNames \cup {<<"roulette">>}} \cup
    {[DefaultConfiguration EXCEPT
          !.chromosome = chromosome0,
          !.stoppingCondition = <<StoppingConditionLeaf(<<"fixed-size">>)>>] :
        chromosome0 \in ChromosomeNames}

\* the dictionaries a WhiskerSearchConfiguration is constructed from
Configurations ==
    ValidatedConfigurations \cup StoppingConfigurations \cup
    GeneratorConfigurations \cup ChoiceConfigurations

\* what a call that throws leaves instead of properties
thrownProperties(exception0) ==
    [exception |-> exception0, populationSize |-> <<>>,
     chromosomeLength |-> <<>>, crossoverProbability |-> <<>>,
     mutationProbability |-> <<>>, stoppingCondition |-> <<>>]

\* new SearchAlgorithmProperties(populationSize, chromosomeLength): the
\* properties hold the two values as they are given
SearchAlgorithmProperties(populationSize0, chromosomeLength0) ==
    [exception |-> "none", populationSize |-> populationSize0,
     chromosomeLength |-> chromosomeLength0, crossoverProbability |-> <<>>,
     mutationProbability |-> <<>>, stoppingCondition |-> <<>>]

\* faulty variant: a type that is none of the four gives an
\* OptimalSolutionStoppingCondition
stoppingConditionClassOrDefault(type0) ==
    CASE type0 = <<"fixed-iteration">> -> "FixedIterationsStoppingCondition"
      [] type0 = <<"fixed-time">> -> "FixedTimeStoppingCondtion"
      [] type0 = <<"optimal">> -> "OptimalSolutionStoppingCondition"
      [] type0 = <<"one-of">> -> "OneOfStoppingCondition"
      [] OTHER -> "OptimalSolutionStoppingCondition"
\* lines 82-97: the class of the stopping condition of a type, or the
\* exception thrown for a type that is none of the four
stoppingConditionClass(type0) ==
    CASE type0 = <<"fixed-iteration">> -> "FixedIterationsStoppingCondition"
      [] type0 = <<"fixed-time">> -> "FixedTimeStoppingCondtion"
      [] type0 = <<"optimal">> -> "OptimalSolutionStoppingCondition"
      [] type0 = <<"one-of">> -> "OneOfStoppingCondition"
      [] OTHER -> "ConfigException"

\* a stopping condition: its class, the iterations or the duration it was
\* constructed with, and the conditions of a OneOfStoppingCondition
StoppingCondition(class0, argument0, conditions0) ==
    [exception |-> "none",
     condition |-> <<[class |-> class0, argument |-> argument0,
                      conditions |-> conditions0]>>]

\* _getStoppingCondition(stoppingCondition), lines 80-98: the condition it
\* returns or the exception it throws
RECURSIVE getStoppingCondition(_)
getStoppingCondition(stoppingCondition0) ==
    LET class0 == stoppingConditionClass(stoppingCondition0.type)
    IN  CASE class0 = "FixedIterationsStoppingCondition" ->
                 StoppingCondition(class0, stoppingCondition0.iterations, <<>>)
          [] class0 = "FixedTimeStoppingCondtion" ->
                 StoppingCondition(class0, stoppingCondition0.duration, <<>>)
          [] class0 = "OptimalSolutionStoppingCondition" ->
                 StoppingCondition(class0, <<>>, <<>>)
          [] class0 = "OneOfStoppingCondition" ->
                 LET l == [i \in DOMAIN stoppingCondition0.conditions |->
                              getStoppingCondition(
                                  stoppingCondition0.conditions[i])]
                     throwing == {i \in DOMAIN l : l[i].exception # "none"}
                 IN  IF throwing # {} THEN l[SetMin(throwing)]
                     ELSE StoppingCondition(
                              class0, <<>>,
                              [i \in DOMAIN l |-> l[i].condition[1]])
          [] OTHER -> [exception |-> class0, condition |-> <<>>]

\* getSearchAlgorithmProperties: the keys are read in the order of the
\* code; reading a key of a missing dictionary is a TypeError, reading a
\* missing key gives undefined
getSearchAlgorithmProperties(dict0) ==
    IF dict0.crossover = <<>> THEN thrownProperties("TypeError")
    ELSE IF dict0.mutation = <<>> THEN thrownProperties("TypeError")
    ELSE LET created == SearchAlgorithmProperties(dict0.populationSize,
                                                  dict0.chromosomeLength)
         IN  IF created.exception # "none" THEN created
             ELSE IF dict0.selection = <<>> THEN thrownProperties("TypeError")
             ELSE IF dict0.archive = <<>> THEN thrownProperties("TypeError")
             ELSE IF dict0.stoppingCondition = <<>>
                  THEN thrownProperties("TypeError")
             ELSE LET built == getStoppingCondition(dict0.stoppingCondition[1])
                  IN  IF built.exception # "none"
                      THEN thrownProperties(built.exception)
                      ELSE [created EXCEPT
                               !.mutationProbability =
                                   dict0.mutation[1].probability,
                               !.crossoverProbability =
                                   dict0.crossover[1].probability,
                               !.stoppingCondition = built.condition]

\* new TournamentSelection(tournamentSize): the operator holds the size as
\* it is given
TournamentSelection(tournamentSize0) ==
    [exception |-> "none", operator |-> "TournamentSelection",
     tournamentSize |-> tournamentSize0]

\* getSelectionOperator: 'tournament' gives a TournamentSelection, 'rank'
\* and everything else a RankSelection
getSelectionOperator(dict0) ==
    IF dict0.selection = <<>>
    THEN [exception |-> "TypeError", operator |-> "none",
          tournamentSize |-> <<>>]
    ELSE IF dict0.selection[1].operator = <<"tournament">>
         THEN TournamentSelection(dict0.selection[1].tournamentSize)
         ELSE [exception |-> "none", operator |-> "RankSelection",
               tournamentSize |-> <<>>]

\* what _getMutationOperator leaves when it throws
thrownMutation(exception0) ==
    [exception |-> exception0, class |-> "none", min |-> <<>>, max |-> <<>>,
     length |-> <<>>, alpha |-> <<>>]

\* faulty variant: a name that is not known gives a BitflipMutation
mutationOperatorClassBitflip(operator0) ==
    CASE operator0 = <<"variablelength">> -> "VariableLengthMutation"
      [] operator0 = <<"integerlist">> -> "IntegerListMutation"
      [] OTHER -> "BitflipMutation"
\* the switch of _getMutationOperator, lines 101-110
mutationOperatorClass(operator0) ==
    CASE operator0 = <<"bitflip">> -> "BitflipMutation"
      [] operator0 = <<"variablelength">> -> "VariableLengthMutation"
      [] OTHER -> "IntegerListMutation"

\* _getMutationOperator, lines 100-111: a BitflipMutation reads nothing
\* else; the other two read the integer range
getMutationOperator(dict0) ==
    IF dict0.mutation = <<>> THEN thrownMutation("TypeError")
    ELSE LET class0 == mutationOperatorClass(dict0.mutation[1].operator)
         IN  IF class0 = "BitflipMutation"
             THEN [thrownMutation("none") EXCEPT !.class = class0]
             ELSE IF dict0.integerRange = <<>>
                  THEN thrownMutation("TypeError")
             ELSE IF class0 = "VariableLengthMutation"
                  THEN [exception |-> "none", class |-> class0,
                        min |-> dict0.integerRange[1].min,
                        max |-> dict0.integerRange[1].max,
                        length |-> dict0.chromosomeLength,
                        alpha |-> dict0.mutation[1].alpha]
             ELSE [exception |-> "none", class |-> class0,
                   min |-> dict0.integerRange[1].min,
                   max |-> dict0.integerRange[1].max,
                   length |-> <<>>, alpha |-> <<>>]

\* the switch of _getCrossoverOperator, lines 114-120
crossoverOperatorClass(operator0) ==
    CASE operator0 = <<"singlepointrelative">> -> "SinglePointRelativeCrossover"
      [] OTHER -> "SinglePointCrossover"

\* _getCrossoverOperator, lines 113-121
getCrossoverOperator(dict0) ==
    IF dict0.crossover = <<>>
    THEN [exception |-> "TypeError", class |-> "none"]
    ELSE [exception |-> "none",
          class |-> crossoverOperatorClass(dict0.crossover[1].operator)]

\* the switch of getChromosomeGenerator, lines 134-167
chromosomeGeneratorClass(chromosome0) ==
    CASE chromosome0 = <<"bitstring">> -> "BitstringChromosomeGenerator"
      [] chromosome0 = <<"integerlist">> -> "IntegerListChromosomeGenerator"
      [] chromosome0 = <<"variablelengthtest">> ->
             "VariableLengthTestChromosomeGenerator"
      [] OTHER -> "TestChromosomeGenerator"

\* what getChromosomeGenerator leaves when it throws
thrownGenerator(exception0) ==
    [exception |-> exception0, class |-> "none", properties |-> <<>>,
     mutationOp |-> <<>>, crossoverOp |-> <<>>, initVarLength |-> <<>>]

\* getChromosomeGenerator, lines 133-168: the arguments of the constructor
\* are evaluated in their order, the properties first
getChromosomeGenerator(dict0) ==
    LET class0 == chromosomeGeneratorClass(dict0.chromosome)
        properties0 == getSearchAlgorithmProperties(dict0)
        mutation0 == getMutationOperator(dict0)
        crossover0 == getCrossoverOperator(dict0)
    IN  IF properties0.exception # "none"
        THEN thrownGenerator(properties0.exception)
        ELSE IF mutation0.exception # "none"
             THEN thrownGenerator(mutation0.exception)
        ELSE IF crossover0.exception # "none"
             THEN thrownGenerator(crossover0.exception)
        ELSE [exception |-> "none", class |-> class0,
              properties |-> <<properties0>>,
              mutationOp |-> <<mutation0>>, crossoverOp |-> <<crossover0>>,
              initVarLength |->
                  IF class0 = "VariableLengthTestChromosomeGenerator"
                  THEN dict0.initVarLength ELSE <<>>]

\* getFitnessFunctionType, lines 170-181
getFitnessFunctionType(dict0) ==
    IF dict0.fitnessFunction = <<>>
    THEN [exception |-> "TypeError", type |-> "none"]
    ELSE [exception |-> "none",
          type |-> CASE dict0.fitnessFunction[1].type = <<"statement">> ->
                            "STATEMENT"
                     [] dict0.fitnessFunction[1].type = <<"one-max">> ->
                            "ONE_MAX"
                     [] OTHER -> "SINGLE_BIT"]

\* the members of the enum SearchAlgorithmType
SearchAlgorithmType == {"RANDOM", "MOSA", "MIO", "ONE_PLUS_ONE"}

\* SearchAlgorithmType.<name>: the member, or undefined when the enum has
\* no member of the name
SearchAlgorithmTypeMember(name) ==
    IF name \in SearchAlgorithmType THEN name ELSE "undefined"

\* getAlgorithm, lines 183-198
getAlgorithm(dict0) ==
    CASE dict0.algorithm = <<"random">> ->
             [exception |-> "none",
              type |-> SearchAlgorithmTypeMember("RANDOM")]
      [] dict0.algorithm = <<"one-plus-one">> ->
             [exception |-> "none",
              type |-> SearchAlgorithmTypeMember("ONE_PLUS_ONE")]
      [] dict0.algorithm = <<"simplega">> ->
             [exception |-> "none",
              type |-> SearchAlgorithmTypeMember("SIMPLEGA")]
      [] dict0.algorithm = <<"mosa">> ->
             [exception |-> "none", type |-> SearchAlgorithmTypeMember("MOSA")]
      [] dict0.algorithm = <<"mio">> ->
             [exception |-> "none", type |-> SearchAlgorithmTypeMember("MIO")]
      [] OTHER -> [exception |-> "IllegalArgumentException", type |-> "none"]

\* getTestGenerator, lines 200-210
getTestGenerator(dict0) ==
    IF dict0.testGenerator = <<"random">>
    THEN [exception |-> "none", class |-> "RandomTestGenerator"]
    ELSE IF dict0.testGenerator = <<"iterative">>
         THEN [exception |-> "none",
               class |-> "IterativeSearchBasedTestGenerator"]
    ELSE IF dict0.testGenerator = <<"many-objective">>
         THEN [exception |-> "none", class |-> "ManyObjectiveTestGenerator"]
    ELSE [exception |-> "ConfigException", class |-> "none"]

(***************************************************************************)
(* RandomInputs                                                            *)
(***************************************************************************)
\* this.frequency = 100 (constructor)
DefaultFrequency == 100
\* the intervals setRandomInputInterval is called with
Frequencies == {50, 100}
\* the elapsed time advances in steps of TimeStep up to MaxTime
TimeStep == 50
MaxTime == 300
\* the most random inputs that are registered
MaxRandomInputs == 2
\* data.weight of a random input; 1 when the data has no weight
Weights == {-1, 0, 1, 2}

\* new RandomInput(data), lines 94-114: the weight of the data, no input
RandomInput(weight0) == [weight |-> weight0, active |-> FALSE]

\* the positions of the inputs that are not active, in the order of the
\* list (the filter of line 194)
RECURSIVE inactiveInputs(_, _)
inactiveInputs(inputs0, i) ==
    IF i > Len(inputs0) THEN <<>>
    ELSE (IF inputs0[i].active THEN <<>> ELSE <<i>>) \o
         inactiveInputs(inputs0, i + 1)

\* lines 200-203: the sum of the weights of the inputs at the positions
RECURSIVE sumOfWeights(_, _)
sumOfWeights(inputs0, positions) ==
    IF positions = <<>> THEN 0
    ELSE inputs0[Head(positions)].weight +
         sumOfWeights(inputs0, Tail(positions))

\* a random float is a multiple of 1 / FloatResolution, held as the number
\* of these parts
FloatResolution == 2

\* MathUtil.randomFloat(min, max), line 209: min + r * (max - min) for an
\* r in [0, 1); the values from min up to, not including, max, which are
\* below min when max is
randomFloat(min0, max0) ==
    IF min0 <= max0
    THEN (min0 * FloatResolution) .. (max0 * FloatResolution - 1)
    ELSE (max0 * FloatResolution + 1) .. (min0 * FloatResolution)

\* lines 210-217: the position of the first input whose weight is greater
\* than what is left of the random weight, <<>> when there is none
chosenInput(inputs0, positions, randomWeight) ==
    LET RECURSIVE walk(_, _)
        walk(rest, weight0) ==
            IF rest = <<>> THEN <<>>
            ELSE IF inputs0[Head(rest)].weight * FloatResolution > weight0
                 THEN <<Head(rest)>>
                 ELSE walk(Tail(rest),
                           weight0 -
                               inputs0[Head(rest)].weight * FloatResolution)
    IN  walk(positions, randomWeight)

\* faulty variant: the call goes on as soon as the elapsed time is past the
\* last input
tooEarlyNever(timeElapsed0, lastInputTime0, frequency0) ==
    timeElapsed0 < lastInputTime0
\* line 190: the call returns when the interval has not passed
tooEarly(timeElapsed0, lastInputTime0, frequency0) ==
    timeElapsed0 < lastInputTime0 + frequency0

(***************************************************************************)
(* State.                                                                  *)
(***************************************************************************)
VARIABLES
    algorithm,            \* the SearchAlgorithmType of the instance that runs
    pc,                   \* its position: "idle", "loop", "offspring",
                          \* "archive", "sort", "done" (MOSA); "idle",
                          \* "loop", "generate", "check", "done"
                          \* (RandomTestGenerator);
                          \* "called" once an unsupported operation was
                          \* called; "failed" once the search has thrown
    called,               \* the unsupported operation the caller called
    thrown,               \* the exception that call, or the search, has thrown
    returned,             \* what findSolution returned: <<>> before it
                          \* returns, a one-element sequence after
    populationSize,       \* _properties.getPopulationSize()
    crossoverProbability, \* _properties.getCrossoverProbability(), in percent
    mutationProbability,  \* _properties.getMutationProbablity(), in percent
    generator,            \* the genotypes of _chromosomeGenerator
    fitnessFunction,      \* the class of the values of _fitnessFunctions
    stoppingCondition,    \* the kind of _properties.getStoppingCondition()
    maxIterations,        \* the budget of the FixedIterations stopping condition
    iterations,           \* _iterations
    bestIndividuals,      \* MOSA._bestIndividuals
    archive,              \* MOSA._archive
    parentPopulation,     \* findSolution's parentPopulation
    offspringPopulation,  \* findSolution's offspringPopulation
    chromosomes,          \* findSolution's chromosomes (parents, then offspring)
    parentsSelectedBy,    \* what selectChromosome selected the last parents
                          \* with: "none", "nextInt", "selectionOperator"
    tests,                \* RandomTestGenerator._tests
    testSuite,            \* generateTests' testSuite (the chromosome of each test)
    uncoveredGoals,       \* generateTests' uncoveredGoals (fitness-function keys)
    testChromosome,       \* the testChromosome of the pass: <<>> outside the
                          \* pass, a one-element sequence in it
    bits1,                \* genes of the first parent of a crossover
    bits2,                \* genes of the second parent
    splitPoint,           \* the relative cut point, in SplitResolution-ths
    offspringGenes,       \* the genes of the two offspring, <<>> before apply
    dict,                 \* WhiskerSearchConfiguration.dict
    properties,           \* what getSearchAlgorithmProperties returned or
                          \* threw, <<>> before the call
    selectionOperator,    \* what getSelectionOperator returned or threw
    wired,                \* the last other getter of the configuration that
                          \* was called, and what it returned or threw
    randomInputs,         \* RandomInputs.randomInputs: the weight of each
                          \* RandomInput and whether it is active
    frequency,            \* RandomInputs.frequency
    lastInputTime,        \* RandomInputs.lastInputTime
    timeElapsed,          \* vmWrapper.getTotalTimeElapsed()
    registrations,        \* the inputs registered so far: the elapsed time
                          \* of the call and the position of the input
    createdTestsCount,    \* StatisticsCollector.createdTestsCount, <<>> until
                          \* it is assigned
    drawn                 \* the calls of chromosomeGenerator.get() since
                          \* generateTests was called

configVars == <<algorithm, populationSize, crossoverProbability,
                mutationProbability, generator, fitnessFunction,
                stoppingCondition, maxIterations>>
mosaVars == <<bestIndividuals, archive, parentPopulation, offspringPopulation,
              chromosomes>>
randomVars == <<tests, testSuite, uncoveredGoals, testChromosome>>
callVars == <<called, thrown, returned>>
selectionVars == <<parentsSelectedBy>>
operatorVars == <<bits1, bits2, splitPoint, offspringGenes>>
inputVars ==
    <<randomInputs, frequency, lastInputTime, timeElapsed, registrations>>
statisticsVars == <<createdTestsCount, drawn>>
wiringVars ==
    <<dict, properties, selectionOperator, wired, inputVars, statisticsVars>>
vars == <<configVars, pc, callVars, iterations, mosaVars, randomVars,
          operatorVars, wiringVars, selectionVars>>

(***************************************************************************)
(* Object identity.  A new object differs from every object still          *)
(* referenced; it gets the least identity no referenced object has.        *)
(***************************************************************************)
Ids(list) == {list[i].id : i \in DOMAIN list}
LiveIds ==
    Ids(parentPopulation) \cup Ids(offspringPopulation) \cup Ids(chromosomes)
        \cup Ids(MapValues(archive)) \cup Ids(bestIndividuals)
        \cup Ids(tests) \cup Ids(testSuite)
FreshId(used) == SetMin({i \in 1 .. (Cardinality(used) + 1) : i \notin used})
NewChromosome(id, genotype) ==
    [id |-> id, fit |-> genotype.fit, len |-> genotype.len]

\* ChromosomeGenerator.get(): a new chromosome of any genotype of the generator
generatorGet(generator0, id) == {NewChromosome(id, g) : g \in generator0}

\* Chromosome.mutate(), Chromosome.crossover(): new chromosomes, of any
\* genotype of the generator that built the parents
mutate(generator0, id) == generatorGet(generator0, id)
crossover(generator0, id1, id2) ==
    generatorGet(generator0, id1) \X generatorGet(generator0, id2)

\* PopulationFactory.generate(generator, size): size new chromosomes
populationFactoryGenerate(generator0, size) ==
    {[i \in 1 .. size |-> NewChromosome(i, g[i])] : g \in [1 .. size -> generator0]}

\* Randomness.nextDouble(), in percent: a value of [0, 1)
NextDoubles == {0, 50}

\* faulty variant: StatementCoverageFitness.getFitness returns a value
getFitnessThrowsOnFailureOnly(fitnessFunction0, chromosome) ==
    IF Len(chromosome.fit) = 0 THEN "ExecutionFailure" ELSE "none"
\* what fitnessFunction.getFitness(chromosome) throws: StatementCoverageFitness
\* throws for every chromosome; any other fitness function throws when the
\* evaluation of the chromosome has failed
getFitnessThrows(fitnessFunction0, chromosome) ==
    IF fitnessFunction0 = "StatementCoverageFitness"
    THEN "NotYetImplementedException"
    ELSE IF Len(chromosome.fit) = 0 THEN "ExecutionFailure" ELSE "none"

\* the index of the first chromosome of a list whose evaluation throws, 0
\* when none throws
firstThrowing(fitnessFunction0, list) ==
    LET throwing == {i \in DOMAIN list :
                        getFitnessThrows(fitnessFunction0, list[i]) # "none"}
    IN  IF throwing = {} THEN 0 ELSE SetMin(throwing)

\* updateArchive up to the call of getFitness that throws: the first key,
\* the candidates before the one that throws
updateArchiveUntilThrow(archive0, chromosomes0, thrower) ==
    LET key == FitnessFunctionKeys[1]
        bestLength == IF MapHas(archive0, key)
                      THEN getLength(MapGet(archive0, key))
                      ELSE MAX_SAFE_INTEGER
    IN  updateArchiveCandidates(archive0, key,
                                subList(chromosomes0, 0, thrower - 1), 1,
                                bestLength)

\* FixedIterationsStoppingCondition.isFinished
isFinished(iterations0, maxIterations0) == iterations0 >= maxIterations0

\* OptimalSolutionStoppingCondition.isFinished: every fitness function has an
\* optimal chromosome in the current solution
optimalSolutionIsFinished(currentSolution) ==
    \A g \in Goals :
        \E i \in DOMAIN currentSolution :
            isOptimal(getFitness(g, currentSolution[i]))

\* the stopping conditions _getStoppingCondition builds; "one-of" is
\* OneOf(FixedIterations(maxIterations), OptimalSolution)
StoppingConditions == {"fixed-iteration", "one-of"}

\* OneOfStoppingCondition.isFinished: a child has finished
oneOfIsFinished(iterations0, maxIterations0, currentSolution) ==
    \/ isFinished(iterations0, maxIterations0)
    \/ optimalSolutionIsFinished(currentSolution)

\* getCurrentSolution() of the algorithm that runs
getCurrentSolution == IF algorithm = "MOSA" THEN bestIndividuals ELSE tests

\* stoppingCondition.isFinished(this)
stoppingConditionIsFinished ==
    IF stoppingCondition = "one-of"
    THEN oneOfIsFinished(iterations, maxIterations, getCurrentSolution)
    ELSE isFinished(iterations, maxIterations)

(***************************************************************************)
(* MOSA.findSolution                                                       *)
(***************************************************************************)
Init ==
    /\ algorithm \in {"MOSA", "RANDOM", "MIO"}
    /\ pc = "idle"
    /\ called = "none"
    /\ thrown = "none"
    /\ returned = <<>>
    /\ \/ /\ crossoverProbability = 50
          /\ mutationProbability = 50
          /\ generator = CoveringGenerator
          /\ fitnessFunction = "FitnessFunction"
          /\ populationSize \in
                 IF algorithm = "MOSA" THEN 1 .. MaxPopulationSize ELSE {1}
          /\ stoppingCondition \in
                 IF algorithm = "MIO" THEN {"fixed-iteration"}
                 ELSE StoppingConditions
          /\ maxIterations \in
                 CASE algorithm = "MOSA" -> 0 .. MaxIterations
                   [] algorithm = "RANDOM" -> 0 .. MaxRandomIterations
                   [] algorithm = "MIO" -> {0}
       \/ /\ algorithm = "MOSA"
          /\ crossoverProbability = 0
          /\ mutationProbability = 0
          /\ generator = ApproachingGenerator
          /\ fitnessFunction = "FitnessFunction"
          /\ populationSize \in 1 .. MaxCloningPopulationSize
          /\ stoppingCondition = "fixed-iteration"
          /\ maxIterations \in 0 .. MaxCloningIterations
       \/ /\ algorithm = "MOSA"
          /\ crossoverProbability = 50
          /\ mutationProbability = 50
          /\ \/ /\ generator = FailingGenerator
                /\ fitnessFunction = "FitnessFunction"
             \/ /\ generator = CoveringGenerator
                /\ fitnessFunction = "StatementCoverageFitness"
          /\ populationSize \in 1 .. MaxPopulationSize
          /\ stoppingCondition = "fixed-iteration"
          /\ maxIterations \in 0 .. MaxFailingIterations
    /\ iterations = 0
    /\ bestIndividuals = <<>>
    /\ archive = <<>>
    /\ parentPopulation = <<>>
    /\ offspringPopulation = <<>>
    /\ chromosomes = <<>>
    /\ parentsSelectedBy = "none"
    /\ tests = <<>>
    /\ testSuite = <<>>
    /\ uncoveredGoals = <<>>
    /\ testChromosome = <<>>
    /\ bits1 = <<>>
    /\ bits2 = <<>>
    /\ splitPoint = 1
    /\ offspringGenes = <<>>
    /\ dict = DefaultConfiguration
    /\ properties = <<>>
    /\ selectionOperator = <<>>
    /\ wired = <<>>
    /\ randomInputs = <<>>
    /\ frequency = DefaultFrequency
    /\ lastInputTime = 0
    /\ timeElapsed = 0
    /\ registrations = <<>>
    /\ createdTestsCount = <<>>
    /\ drawn = 0

\* lines 140-143; the call is the first one of the instance or follows a
\* call that has returned
FindSolution ==
    /\ algorithm = "MOSA"
    /\ pc \in {"idle", "done"}
    /\ \E population \in populationFactoryGenerate(generator, populationSize) :
          /\ firstThrowing(fitnessFunction, population) = 0
          /\ parentPopulation' = population
          /\ archive' = updateArchive(<<>>, population)
    /\ bestIndividuals' = <<>>
    /\ returned' = <<>>
    /\ pc' = "loop"
    /\ UNCHANGED <<wiringVars, operatorVars, selectionVars,
                   configVars, called, thrown, iterations,
                   offspringPopulation, chromosomes, randomVars>>

\* lines 140-143, a call of getFitness in updateArchive throws: nothing
\* catches the exception, it ends findSolution
FindSolutionThrows ==
    /\ algorithm = "MOSA"
    /\ pc \in {"idle", "done"}
    /\ \E population \in populationFactoryGenerate(generator, populationSize) :
          \E thrower \in {firstThrowing(fitnessFunction, population)} :
              /\ thrower > 0
              /\ parentPopulation' = population
              /\ archive' = updateArchiveUntilThrow(<<>>, population, thrower)
              /\ thrown' = getFitnessThrows(fitnessFunction,
                                            population[thrower])
    /\ bestIndividuals' = <<>>
    /\ returned' = <<>>
    /\ pc' = "failed"
    /\ UNCHANGED <<wiringVars, operatorVars, selectionVars,
                   configVars, called, iterations,
                   offspringPopulation, chromosomes, randomVars>>

\* line 163
archiveValues(archive0) == distinct(MapValues(archive0))

\* faulty variant: the values of the archive are returned
returnedSolutionOfArchive(bestIndividuals0, archive0) ==
    archiveValues(archive0)
\* line 166: return this._bestIndividuals
returnedSolution(bestIndividuals0, archive0) == bestIndividuals0

\* line 144, the condition holds: line 166
Return ==
    /\ algorithm = "MOSA"
    /\ pc = "loop"
    /\ stoppingConditionIsFinished
    /\ returned' = <<returnedSolution(bestIndividuals, archive)>>
    /\ pc' = "done"
    /\ UNCHANGED <<wiringVars, operatorVars, selectionVars, configVars,
                   called, thrown, iterations, mosaVars, randomVars>>

\* line 144, the condition fails: the loop body starts
EnterLoop ==
    /\ algorithm = "MOSA"
    /\ pc = "loop"
    /\ ~stoppingConditionIsFinished
    /\ pc' = "offspring"
    /\ offspringPopulation' = <<>>
    /\ UNCHANGED <<wiringVars, operatorVars, selectionVars,
                   configVars, callVars, iterations, bestIndividuals, archive,
                   parentPopulation, chromosomes, randomVars>>

\* selectChromosome: an element of the population, by a random index
\* (iteration 0) or by the selection operator (later iterations)
selectChromosome(population, useRankSelection) == Elems(population)

\* faulty variant: the selection operator is applied whatever the mode is
selectedByOperator(useRankSelection) == "selectionOperator"
\* lines 212-217: what selectChromosome selects with
selectedBy(useRankSelection) ==
    IF useRankSelection THEN "selectionOperator" ELSE "nextInt"

\* lines 183-189: the children before mutation
crossed(parent1, parent2, draw, probability, generator0, id1, id2) ==
    IF draw < probability
    THEN crossover(generator0, id1, id2)
    ELSE {<<parent1, parent2>>}

\* lines 190-195: a child after the mutation step
mutated(child, draw, probability, generator0, id) ==
    IF draw < probability THEN mutate(generator0, id) ELSE {child}

\* faulty variant: the second child is added whatever the size is
addChildrenBoth(offspring, child1, child2, size) ==
    offspring \o <<child1, child2>>
\* lines 196-199
addChildren(offspring, child1, child2, size) ==
    IF Len(offspring) + 1 < size
    THEN offspring \o <<child1, child2>>
    ELSE Append(offspring, child1)

\* lines 180-195: the pairs of children one pass of the loop can produce;
\* live holds the identities of the objects still referenced
childrenOf(population, useRankSelection, crossoverProbability0, mutationProbability0, generator0, live) ==
    LET id1 == FreshId(live)
        id2 == FreshId(live \cup {id1})
    IN  UNION {
          UNION {
            UNION {
              { <<child1, child2>> :
                  child2 \in mutated(pair[2], draw[3], mutationProbability0,
                                     generator0,
                                     FreshId(live \cup {child1.id})) } :
              child1 \in mutated(pair[1], draw[2], mutationProbability0,
                                 generator0, id1) } :
            pair \in crossed(parents[1], parents[2], draw[1],
                             crossoverProbability0, generator0, id1, id2) } :
          parents \in selectChromosome(population, useRankSelection)
                          \X selectChromosome(population, useRankSelection),
          draw \in NextDoubles \X NextDoubles \X NextDoubles }

\* one pass of the loop of generateOffspringPopulation (lines 179-200)
GenerateOffspring ==
    /\ algorithm = "MOSA"
    /\ pc = "offspring"
    /\ Len(offspringPopulation) < Len(parentPopulation)
    /\ \E live \in {LiveIds} :
          \E children \in childrenOf(parentPopulation, iterations > 0,
                                      crossoverProbability, mutationProbability,
                                      generator, live) :
              offspringPopulation' =
                  addChildren(offspringPopulation, children[1], children[2],
                              Len(parentPopulation))
    /\ parentsSelectedBy' = selectedBy(iterations > 0)
    /\ pc' = IF Len(offspringPopulation') < Len(parentPopulation)
             THEN "offspring" ELSE "archive"
    /\ UNCHANGED <<wiringVars, operatorVars,
                   configVars, callVars, iterations, bestIndividuals, archive,
                   parentPopulation, chromosomes, randomVars>>

\* lines 146-149
ArchiveOffspring ==
    /\ algorithm = "MOSA"
    /\ pc = "archive"
    /\ firstThrowing(fitnessFunction, offspringPopulation) = 0
    /\ archive' = updateArchive(archive, offspringPopulation)
    /\ chromosomes' = parentPopulation \o offspringPopulation
    /\ pc' = "sort"
    /\ UNCHANGED <<wiringVars, operatorVars, selectionVars,
                   configVars, callVars, iterations,
                   bestIndividuals, parentPopulation, offspringPopulation,
                   randomVars>>

\* line 146, a call of getFitness in updateArchive throws
ArchiveOffspringThrows ==
    /\ algorithm = "MOSA"
    /\ pc = "archive"
    /\ \E thrower \in {firstThrowing(fitnessFunction, offspringPopulation)} :
          /\ thrower > 0
          /\ archive' = updateArchiveUntilThrow(archive, offspringPopulation,
                                                thrower)
          /\ thrown' = getFitnessThrows(fitnessFunction,
                                        offspringPopulation[thrower])
    /\ pc' = "failed"
    /\ UNCHANGED <<wiringVars, operatorVars, selectionVars,
                   configVars, called, returned, iterations,
                   bestIndividuals, parentPopulation, offspringPopulation,
                   chromosomes, randomVars>>

\* faulty variant: an iteration is counted twice
nextIterationsTwice(iterations0) == iterations0 + 2
\* line 164
nextIterations(iterations0) == iterations0 + 1

\* faulty variant: the population stays in the order it was filled in
filledPopulation(population) == population
\* line 162: parentPopulation.reverse()
reversedPopulation(population) == reverse(population)

\* lines 150-164; the locals of the loop body go out of scope
SelectSurvivors ==
    /\ algorithm = "MOSA"
    /\ pc = "sort"
    /\ \E fronts \in {preferenceSorting(chromosomes, archive, populationSize)} :
          \E population \in survivors(fronts, 1, <<>>, populationSize) :
              /\ archive' = updateArchive(archive, population)
              /\ parentPopulation' = reversedPopulation(population)
    /\ bestIndividuals' = archiveValues(archive')
    /\ iterations' = nextIterations(iterations)
    /\ offspringPopulation' = <<>>
    /\ chromosomes' = <<>>
    /\ pc' = "loop"
    /\ UNCHANGED <<wiringVars, operatorVars, selectionVars,
                   configVars, callVars, randomVars>>

(***************************************************************************)
(* RandomTestGenerator.generateTests                                       *)
(***************************************************************************)
\* lines 48-59
GenerateTests ==
    /\ algorithm = "RANDOM"
    /\ pc = "idle"
    /\ testSuite' = <<>>
    /\ uncoveredGoals' = FitnessFunctionKeys
    /\ drawn' = 0
    /\ pc' = "loop"
    /\ UNCHANGED <<dict, properties, selectionOperator, wired, inputVars,
                   createdTestsCount, operatorVars, selectionVars,
                   configVars, callVars, iterations, mosaVars, tests,
                   testChromosome>>

\* faulty variant: every goal is checked, the covered ones too
coveredGoalsOfAllGoals(chromosome, uncovered) ==
    filter(FitnessFunctionKeys,
           {i \in DOMAIN FitnessFunctionKeys :
               isCovered(FitnessFunctionKeys[i], chromosome)})
\* lines 67-75: the goals of uncoveredGoals the chromosome covers, in order
coveredGoalsOf(chromosome, uncovered) ==
    filter(uncovered,
           {i \in DOMAIN uncovered : isCovered(uncovered[i], chromosome)})

\* faulty variant: only the first covered goal is removed
removeAllFirstOnly(list, items) ==
    IF Len(items) = 0 THEN list ELSE remove(list, Head(items))
\* lines 76-78
RECURSIVE removeAll(_, _)
removeAll(list, items) ==
    IF Len(items) = 0 THEN list
    ELSE removeAll(remove(list, Head(items)), Tail(items))

\* line 61, the condition fails: lines 62-64
RandomEnterLoop ==
    /\ algorithm = "RANDOM"
    /\ pc = "loop"
    /\ ~stoppingConditionIsFinished
    /\ iterations' = nextIterations(iterations)
    /\ pc' = "generate"
    /\ UNCHANGED <<wiringVars, operatorVars, selectionVars,
                   configVars, callVars, mosaVars, randomVars>>

\* line 65
RandomGenerate ==
    /\ algorithm = "RANDOM"
    /\ pc = "generate"
    /\ \E chromosome \in generatorGet(generator, FreshId(LiveIds)) :
          testChromosome' = <<chromosome>>
    /\ drawn' = drawn + 1
    /\ pc' = "check"
    /\ UNCHANGED <<dict, properties, selectionOperator, wired, inputVars,
                   createdTestsCount, operatorVars, selectionVars,
                   configVars, callVars, iterations, mosaVars, tests,
                   testSuite, uncoveredGoals>>

\* faulty variant: the pass ends when the stopping condition has finished
RandomIterationPolling ==
    /\ algorithm = "RANDOM"
    /\ pc = "check"
    /\ pc' = IF stoppingConditionIsFinished THEN "done" ELSE "loop"
    /\ testChromosome' = <<>>
    /\ UNCHANGED <<wiringVars, operatorVars, selectionVars,
                   configVars, callVars, iterations, mosaVars, tests,
                   testSuite, uncoveredGoals>>

\* the rest of the pass (lines 66-79); testChromosome goes out of scope
RandomIteration ==
    /\ algorithm = "RANDOM"
    /\ pc = "check"
    /\ pc' = "loop"
    /\ LET coveredGoals == coveredGoalsOf(testChromosome[1], uncoveredGoals)
           added == [i \in DOMAIN coveredGoals |-> testChromosome[1]]
       IN  /\ tests' = tests \o added
           /\ testSuite' = testSuite \o added
           /\ uncoveredGoals' = removeAll(uncoveredGoals, coveredGoals)
    /\ testChromosome' = <<>>
    /\ UNCHANGED <<wiringVars, operatorVars, selectionVars,
                   configVars, callVars, iterations, mosaVars>>

\* line 80: the count that is recorded after the loop
recordedTestsCount(iterations0) == iterations0 + 1

\* line 61, the condition holds: lines 80-82
RandomReturn ==
    /\ algorithm = "RANDOM"
    /\ pc = "loop"
    /\ stoppingConditionIsFinished
    /\ createdTestsCount' = <<recordedTestsCount(iterations)>>
    /\ pc' = "done"
    /\ UNCHANGED <<dict, properties, selectionOperator, wired, inputVars,
                   drawn, operatorVars, selectionVars,
                   configVars, callVars, iterations, mosaVars, randomVars>>

(***************************************************************************)
(* Operations an algorithm does not support                                *)
(***************************************************************************)
\* the operations whose body is a throw statement
UnsupportedOperations(algorithm0) ==
    CASE algorithm0 = "MOSA" -> {"setFitnessFunction"}
      [] algorithm0 = "MIO" -> {"setFitnessFunction", "setSelectionOperator"}
      [] algorithm0 = "RANDOM" ->
            {"findSolution", "setChromosomeGenerator", "setFitnessFunction",
             "setFitnessFunctions", "setHeuristicFunctions", "setProperties",
             "setSelectionOperator"}

\* faulty variant: the operation returns and nothing is thrown
exceptionOfIgnoredCall(algorithm0, operation) == "none"
\* throw new NotSupportedFunctionException()
exceptionOf(algorithm0, operation) == "NotSupportedFunctionException"

\* the caller calls an unsupported operation, before or after the search (a
\* search runs to its end once called); the exception ends the caller
UnsupportedCall ==
    /\ pc \in {"idle", "done"}
    /\ \E operation \in UnsupportedOperations(algorithm) :
          /\ called' = operation
          /\ thrown' = exceptionOf(algorithm, operation)
    /\ pc' = "called"
    /\ UNCHANGED <<wiringVars, operatorVars, selectionVars,
                   configVars, returned, iterations, mosaVars, randomVars>>

Next ==
    \/ FindSolution
    \/ FindSolutionThrows
    \/ Return
    \/ EnterLoop
    \/ GenerateOffspring
    \/ ArchiveOffspring
    \/ ArchiveOffspringThrows
    \/ SelectSurvivors
    \/ GenerateTests
    \/ RandomEnterLoop
    \/ RandomGenerate
    \/ RandomIteration
    \/ RandomReturn
    \/ UnsupportedCall

Spec == Init /\ [][Next]_vars

(***************************************************************************)
(* SinglePointRelativeCrossover                                            *)
(***************************************************************************)
\* the cut point of a parent: floor(r * length), r = numerator/SplitResolution
cutPoint(length, numerator) == (numerator * length) \div SplitResolution

\* faulty variant: the second parent is cut where the first is
applyAtPositionSameCut(first, second, position1, position2) ==
    SubSeq(first, 1, position1) \o SubSeq(second, position1 + 1, Len(second))
\* the head of one parent up to its cut, then the tail of the other from its
\* cut
applyAtPosition(first, second, position1, position2) ==
    SubSeq(first, 1, position1) \o SubSeq(second, position2 + 1, Len(second))

\* faulty variant: each parent is cut at the cut point of the other
applyWithCutsSwapped(first, second, numerator) ==
    LET position1 == cutPoint(Len(second), numerator)
        position2 == cutPoint(Len(first), numerator)
    IN  <<applyAtPosition(first, second, position1, position2),
          applyAtPosition(second, first, position2, position1)>>
\* SinglePointRelativeCrossover.apply
apply(first, second, numerator) ==
    LET position1 == cutPoint(Len(first), numerator)
        position2 == cutPoint(Len(second), numerator)
    IN  <<applyAtPosition(first, second, position1, position2),
          applyAtPosition(second, first, position2, position1)>>

\* the bitstrings of 1 .. MaxGenes genes
RECURSIVE Bitstrings(_)
Bitstrings(length) ==
    IF length = 0 THEN {<<>>}
    ELSE {<<bit>> \o genes : bit \in BOOLEAN, genes \in Bitstrings(length - 1)}
Parents == UNION {Bitstrings(length) : length \in 1 .. MaxGenes}

\* two parents and a relative cut point of (0, 1)
CrossoverInit ==
    /\ algorithm = "MOSA"
    /\ pc = "idle"
    /\ called = "none"
    /\ thrown = "none"
    /\ returned = <<>>
    /\ crossoverProbability = 50
    /\ mutationProbability = 50
    /\ generator = CoveringGenerator
    /\ fitnessFunction = "FitnessFunction"
    /\ populationSize = 1
    /\ stoppingCondition = "fixed-iteration"
    /\ maxIterations = 0
    /\ iterations = 0
    /\ bestIndividuals = <<>>
    /\ archive = <<>>
    /\ parentPopulation = <<>>
    /\ offspringPopulation = <<>>
    /\ chromosomes = <<>>
    /\ parentsSelectedBy = "none"
    /\ tests = <<>>
    /\ testSuite = <<>>
    /\ uncoveredGoals = <<>>
    /\ testChromosome = <<>>
    /\ bits1 \in Parents
    /\ bits2 \in Parents
    /\ splitPoint \in 1 .. (SplitResolution - 1)
    /\ offspringGenes = <<>>
    /\ dict = DefaultConfiguration
    /\ properties = <<>>
    /\ selectionOperator = <<>>
    /\ wired = <<>>
    /\ randomInputs = <<>>
    /\ frequency = DefaultFrequency
    /\ lastInputTime = 0
    /\ timeElapsed = 0
    /\ registrations = <<>>
    /\ createdTestsCount = <<>>
    /\ drawn = 0

\* xover.apply(parent1, parent2)
Apply ==
    /\ offspringGenes = <<>>
    /\ offspringGenes' = apply(bits1, bits2, splitPoint)
    /\ UNCHANGED <<configVars, pc, callVars, iterations, mosaVars, randomVars,
                   bits1, bits2, splitPoint, wiringVars, selectionVars>>

CrossoverSpec == CrossoverInit /\ [][Apply]_vars

\* the searches whose termination is checked
FairInit == Init /\ populationSize <= MaxFairPopulationSize

\* the search loop is the only thread: a step that can be taken is taken
FairSpec == FairInit /\ [][Next]_vars /\ WF_vars(Next)

(***************************************************************************)
(* Building the properties and the operators from a configuration         *)
(***************************************************************************)
\* a configuration out of Configurations, nothing built from it yet
ConfigurationInit ==
    /\ algorithm = "MOSA"
    /\ pc = "idle"
    /\ called = "none"
    /\ thrown = "none"
    /\ returned = <<>>
    /\ crossoverProbability = 50
    /\ mutationProbability = 50
    /\ generator = CoveringGenerator
    /\ fitnessFunction = "FitnessFunction"
    /\ populationSize = 1
    /\ stoppingCondition = "fixed-iteration"
    /\ maxIterations = 0
    /\ iterations = 0
    /\ bestIndividuals = <<>>
    /\ archive = <<>>
    /\ parentPopulation = <<>>
    /\ offspringPopulation = <<>>
    /\ chromosomes = <<>>
    /\ parentsSelectedBy = "none"
    /\ tests = <<>>
    /\ testSuite = <<>>
    /\ uncoveredGoals = <<>>
    /\ testChromosome = <<>>
    /\ bits1 = <<>>
    /\ bits2 = <<>>
    /\ splitPoint = 1
    /\ offspringGenes = <<>>
    /\ dict \in Configurations
    /\ properties = <<>>
    /\ selectionOperator = <<>>
    /\ wired = <<>>
    /\ randomInputs = <<>>
    /\ frequency = DefaultFrequency
    /\ lastInputTime = 0
    /\ timeElapsed = 0
    /\ registrations = <<>>
    /\ createdTestsCount = <<>>
    /\ drawn = 0

\* config.getSearchAlgorithmProperties()
GetSearchAlgorithmProperties ==
    /\ properties = <<>>
    /\ properties' = <<getSearchAlgorithmProperties(dict)>>
    /\ UNCHANGED <<configVars, pc, callVars, iterations, mosaVars, randomVars,
                   operatorVars, selectionVars, inputVars,
                   statisticsVars, dict, selectionOperator, wired>>

\* config.getSelectionOperator()
GetSelectionOperator ==
    /\ selectionOperator = <<>>
    /\ selectionOperator' = <<getSelectionOperator(dict)>>
    /\ UNCHANGED <<configVars, pc, callVars, iterations, mosaVars, randomVars,
                   operatorVars, selectionVars, inputVars,
                   statisticsVars, dict, properties, wired>>

\* config.getChromosomeGenerator()
GetChromosomeGenerator ==
    /\ wired' = <<[getter |-> "getChromosomeGenerator",
                   result |-> getChromosomeGenerator(dict)]>>
    /\ UNCHANGED <<configVars, pc, callVars, iterations, mosaVars, randomVars,
                   operatorVars, selectionVars, inputVars,
                   statisticsVars, dict, properties,
                   selectionOperator>>

\* config.getFitnessFunctionType()
GetFitnessFunctionType ==
    /\ wired' = <<[getter |-> "getFitnessFunctionType",
                   result |-> getFitnessFunctionType(dict)]>>
    /\ UNCHANGED <<configVars, pc, callVars, iterations, mosaVars, randomVars,
                   operatorVars, selectionVars, inputVars,
                   statisticsVars, dict, properties,
                   selectionOperator>>

\* config.getAlgorithm()
GetAlgorithm ==
    /\ wired' = <<[getter |-> "getAlgorithm", result |-> getAlgorithm(dict)]>>
    /\ UNCHANGED <<configVars, pc, callVars, iterations, mosaVars, randomVars,
                   operatorVars, selectionVars, inputVars,
                   statisticsVars, dict, properties,
                   selectionOperator>>

\* config.getTestGenerator()
GetTestGenerator ==
    /\ wired' = <<[getter |-> "getTestGenerator",
                   result |-> getTestGenerator(dict)]>>
    /\ UNCHANGED <<configVars, pc, callVars, iterations, mosaVars, randomVars,
                   operatorVars, selectionVars, inputVars,
                   statisticsVars, dict, properties,
                   selectionOperator>>

ConfigurationNext ==
    \/ GetSearchAlgorithmProperties
    \/ GetSelectionOperator
    \/ GetChromosomeGenerator
    \/ GetFitnessFunctionType
    \/ GetAlgorithm
    \/ GetTestGenerator

ConfigurationSpec == ConfigurationInit /\ [][ConfigurationNext]_vars

(***************************************************************************)
(* Random inputs during a run                                              *)
(***************************************************************************)
\* a RandomInputs object after its construction, the run at time 0
RandomInputsInit == ConfigurationInit /\ dict = DefaultConfiguration

\* what the steps of RandomInputs leave alone
otherVars ==
    <<configVars, pc, callVars, iterations, mosaVars, randomVars,
      operatorVars, selectionVars, statisticsVars, dict, properties,
      selectionOperator, wired>>

\* registerRandomInputs([data]), lines 223-225
RegisterRandomInputs ==
    /\ Len(randomInputs) < MaxRandomInputs
    /\ \E weight0 \in Weights :
           randomInputs' = Append(randomInputs, RandomInput(weight0))
    /\ UNCHANGED <<otherVars, frequency, lastInputTime, timeElapsed,
                   registrations>>

\* clearRandomInputs(), lines 227-229
ClearRandomInputs ==
    /\ randomInputs # <<>>
    /\ randomInputs' = <<>>
    /\ UNCHANGED <<otherVars, frequency, lastInputTime, timeElapsed,
                   registrations>>

\* setRandomInputInterval(frequency), lines 234-236, called before the run
\* has started
SetRandomInputInterval ==
    /\ timeElapsed = 0
    /\ \E frequency0 \in Frequencies : frequency' = frequency0
    /\ UNCHANGED <<otherVars, randomInputs, lastInputTime, timeElapsed,
                   registrations>>

\* the run goes on: the elapsed time grows
Tick ==
    /\ timeElapsed + TimeStep <= MaxTime
    /\ timeElapsed' = timeElapsed + TimeStep
    /\ UNCHANGED <<otherVars, randomInputs, frequency, lastInputTime,
                   registrations>>

\* the input of a random input is over: isActive() is false from now on
InputEnds ==
    /\ \E i \in DOMAIN randomInputs :
           /\ randomInputs[i].active
           /\ randomInputs' = [randomInputs EXCEPT ![i].active = FALSE]
    /\ UNCHANGED <<otherVars, frequency, lastInputTime, timeElapsed,
                   registrations>>

\* performRandomInput(), lines 183-218
PerformRandomInput ==
    /\ LET inactive == inactiveInputs(randomInputs, 1)
           sum == sumOfWeights(randomInputs, inactive)
       IN  IF \/ randomInputs = <<>>
              \/ tooEarly(timeElapsed, lastInputTime, frequency)
              \/ inactive = <<>>
              \/ sum = 0
           THEN UNCHANGED inputVars
           ELSE \E randomWeight \in randomFloat(0, sum) :
                    LET chosen == chosenInput(randomInputs, inactive,
                                              randomWeight)
                    IN  IF chosen = <<>>
                        THEN UNCHANGED inputVars
                        ELSE /\ lastInputTime' = timeElapsed
                             /\ randomInputs' =
                                    [randomInputs EXCEPT
                                         ![chosen[1]].active = TRUE]
                             /\ registrations' =
                                    Append(registrations,
                                           [time |-> timeElapsed,
                                            input |-> chosen[1]])
                             /\ UNCHANGED <<frequency, timeElapsed>>
    /\ UNCHANGED otherVars

RandomInputsNext ==
    \/ RegisterRandomInputs
    \/ ClearRandomInputs
    \/ SetRandomInputInterval
    \/ Tick
    \/ InputEnds
    \/ PerformRandomInput

RandomInputsSpec == RandomInputsInit /\ [][RandomInputsNext]_vars

(***************************************************************************)
(* Properties of the archive                                               *)
(***************************************************************************)
\* C1: every chromosome stored in the archive has an optimal fitness value
\* for the fitness function it is stored under.
C1_ArchiveOptimality ==
    algorithm = "MOSA" =>
        \A i \in DOMAIN archive :
            isOptimal(getFitness(archive[i].key, archive[i].value))

\* the offspring offered to the archive held a shorter chromosome that is not
\* optimal for a goal the archive covers
C1_ShorterNonOptimalOffered ==
    /\ algorithm = "MOSA"
    /\ pc = "sort"
    /\ \E i \in DOMAIN archive :
          \E c \in Elems(offspringPopulation) :
              /\ ~isOptimal(getFitness(archive[i].key, c))
              /\ getLength(c) < getLength(archive[i].value)

\* C2: at the end of every iteration the next parent population holds exactly
\* populationSize chromosomes, also when offspring are the same objects as
\* their parents.
C2_PopulationSize ==
    (algorithm = "MOSA" /\ pc = "loop" /\ iterations > 0) =>
        Len(parentPopulation) = populationSize

\* the chromosomes handed to updateArchive by the step being taken, in the
\* order in which updateArchive visits them
C3_Offered ==
    CASE pc = "idle" -> parentPopulation'
      [] pc = "archive" -> offspringPopulation
      [] pc = "sort" -> reverse(parentPopulation')
      [] OTHER -> <<>>

\* the chromosomes among them that updateArchive evaluates: all of them, or
\* those before the one whose evaluation throws
C3_Candidates ==
    IF pc' = "failed"
    THEN subList(C3_Offered, 0, firstThrowing(fitnessFunction, C3_Offered) - 1)
    ELSE C3_Offered

C3_Replaced(g) ==
    /\ MapHas(archive', g)
    /\ MapHas(archive, g) => MapGet(archive', g) # MapGet(archive, g)

\* C3: an archive entry is set or replaced only by an optimal candidate that
\* is strictly shorter than the entry it replaces; among the candidates of
\* one update the earliest of the shortest optimal ones wins, and the length
\* stored for a goal never increases.  (A call of findSolution that follows
\* another one clears the archive first: its update is that of a first call.)
C3_ArchiveTieBreaking ==
    [][(algorithm = "MOSA" /\ pc # "done") =>
           \A g \in Goals :
               /\ MapHas(archive, g) =>
                      /\ MapHas(archive', g)
                      /\ getLength(MapGet(archive', g))
                             <= getLength(MapGet(archive, g))
               /\ C3_Replaced(g) =>
                      /\ isOptimal(getFitness(g, MapGet(archive', g)))
                      /\ MapHas(archive, g) =>
                             getLength(MapGet(archive', g))
                                 < getLength(MapGet(archive, g))
                      /\ contains(C3_Candidates, MapGet(archive', g))
                      /\ \A i \in DOMAIN C3_Candidates :
                             isOptimal(getFitness(g, C3_Candidates[i])) =>
                                 \/ getLength(MapGet(archive', g))
                                        < getLength(C3_Candidates[i])
                                 \/ /\ getLength(MapGet(archive', g))
                                           = getLength(C3_Candidates[i])
                                    /\ indexOf(C3_Candidates,
                                               MapGet(archive', g)) <= i]_vars

\* an offspring has taken the place of a longer optimal chromosome that the
\* archive held at the end of the previous iteration
C3_EntryReplacedByShorter ==
    /\ algorithm = "MOSA"
    /\ pc = "sort"
    /\ \E g \in Goals :
          /\ MapHas(archive, g)
          /\ contains(offspringPopulation, MapGet(archive, g))
          /\ \E c \in Elems(bestIndividuals) :
                /\ isOptimal(getFitness(g, c))
                /\ getLength(c) > getLength(MapGet(archive, g))

\* C4: while findSolution runs, a fitness function that has an archive entry
\* keeps one; the archive is only ever empty before the first update.
C4_ArchivePersistence ==
    [][(algorithm = "MOSA" /\ pc \notin {"idle", "done"}) =>
           \A i \in DOMAIN archive : MapHas(archive', archive[i].key)]_vars

\* an archived chromosome is no longer part of the population
C4_EntryOutlivesPopulation ==
    /\ algorithm = "MOSA"
    /\ pc = "loop"
    /\ iterations > 0
    /\ \E i \in DOMAIN archive : ~contains(parentPopulation, archive[i].value)

\* C5: the list findSolution returns holds exactly the chromosomes stored in
\* the archive, each once, also when the stopping condition is finished
\* before the first iteration.
C5_ResultIsArchive ==
    (algorithm = "MOSA" /\ pc = "done") =>
        /\ Elems(bestIndividuals) = Elems(MapValues(archive))
        /\ \A i, j \in DOMAIN bestIndividuals :
               bestIndividuals[i] = bestIndividuals[j] => i = j

(***************************************************************************)
(* Properties of the dominance relation                                    *)
(***************************************************************************)
UncoveredGoals(archive0) == {g \in Goals : ~MapHas(archive0, g)}

\* C6: dominates(a, b) holds exactly if, over the goals without an archive
\* entry, a compares no worse than b on every goal and strictly better on at
\* least one; so covered goals have no influence, and nothing dominates once
\* every goal is covered.
C6_DominatesOverUncovered ==
    (algorithm = "MOSA" /\ pc = "sort") =>
        \A a, b \in AllChromosomes :
            dominates(a, b, archive) <=>
                /\ \A g \in UncoveredGoals(archive) :
                       compare(getFitness(g, a), getFitness(g, b)) >= 0
                /\ \E g \in UncoveredGoals(archive) :
                       compare(getFitness(g, a), getFitness(g, b)) > 0

\* a chromosome of R dominates one that is better on a covered goal
C6_CoveredGoalIgnored ==
    /\ algorithm = "MOSA"
    /\ pc = "sort"
    /\ \E a, b \in Elems(chromosomes) :
          /\ dominates(a, b, archive)
          /\ \E g \in Goals \ UncoveredGoals(archive) :
                compare(getFitness(g, a), getFitness(g, b)) < 0

\* C7: for the archive the search holds at the head of its loop, dominance
\* is irreflexive, asymmetric and transitive.
C7_StrictPartialOrder ==
    (algorithm = "MOSA" /\ pc = "loop") =>
        \A a \in AllChromosomes :
            /\ ~dominates(a, a, archive)
            /\ \A b \in AllChromosomes :
                   dominates(a, b, archive) =>
                       /\ ~dominates(b, a, archive)
                       /\ \A c \in AllChromosomes :
                              dominates(b, c, archive) =>
                                  dominates(a, c, archive)

\* the population holds a chain of three chromosomes
C7_ChainInPopulation ==
    /\ algorithm = "MOSA"
    /\ pc = "loop"
    /\ \E a, b, c \in Elems(parentPopulation) :
          dominates(a, b, archive) /\ dominates(b, c, archive)

(***************************************************************************)
(* Properties of the sorting into fronts and of the survivor selection     *)
(***************************************************************************)
\* c is a chromosome of the list that none beats on goal g and that is
\* shortest among those with that fitness
BestFor(g, c, list) ==
    /\ contains(list, c)
    /\ \A d \in Elems(list) :
           /\ compare(getFitness(g, d), getFitness(g, c)) <= 0
           /\ compare(getFitness(g, d), getFitness(g, c)) = 0 =>
                  getLength(c) <= getLength(d)

\* C8: for every goal without an archive entry the first front of
\* preferenceSorting(R) holds a chromosome of R that is best for the goal
\* and shortest among the best; the front holds nothing else and nothing
\* twice; when every goal has an archive entry there is no such front.
C8_PreferredFront ==
    (algorithm = "MOSA" /\ pc = "sort") =>
        LET fronts == preferenceSorting(chromosomes, archive, populationSize)
            uncovered == UncoveredGoals(archive)
        IN  IF uncovered = {}
            THEN fronts = fastNonDominatedSorting(chromosomes, archive)
            ELSE /\ Len(fronts) >= 1
                 /\ \A g \in uncovered :
                        \E c \in Elems(fronts[1]) : BestFor(g, c, chromosomes)
                 /\ \A i \in DOMAIN fronts[1] :
                        /\ \E g \in uncovered :
                               BestFor(g, fronts[1][i], chromosomes)
                        /\ \A j \in DOMAIN fronts[1] :
                               fronts[1][i] = fronts[1][j] => i = j

\* R holds two chromosomes of different length with the best fitness for an
\* uncovered goal, and the goals have different best chromosomes
C8_TieBrokenByLength ==
    /\ algorithm = "MOSA"
    /\ pc = "sort"
    /\ Len(preferenceBestFront(chromosomes, archive)) = 2
    /\ \E g \in UncoveredGoals(archive) :
          \E c, d \in Elems(chromosomes) :
              /\ BestFor(g, c, chromosomes)
              /\ compare(getFitness(g, d), getFitness(g, c)) = 0
              /\ getLength(c) < getLength(d)

\* the largest number of goals on which another chromosome of the front is
\* better than c
Distance(c, front) ==
    SetMax({0} \cup
           {Cardinality({g \in Goals :
                compare(getFitness(g, c), getFitness(g, d)) < 0}) :
            d \in Elems(front) \ {c}})

IsPermutation(list1, list2) ==
    /\ Len(list1) = Len(list2)
    /\ \A c \in Elems(list1) \cup Elems(list2) :
           Count(list1, c) = Count(list2, c)

\* part holds chromosomes of the front in ascending order of their distance,
\* and no chromosome left out has a smaller distance than one in part
IsAscendingPrefix(part, front) ==
    /\ \A c \in Elems(part) : Count(part, c) <= Count(front, c)
    /\ \A i, j \in DOMAIN part :
           i < j => Distance(part[i], front) <= Distance(part[j], front)
    /\ \A c \in Elems(front) :
           Count(part, c) < Count(front, c) =>
               \A i \in DOMAIN part :
                   Distance(part[i], front) <= Distance(c, front)

RECURSIVE FilledFrom(_, _, _, _)
FilledFrom(fronts, i, population, size) ==
    IF i > Len(fronts) THEN population = <<>>
    ELSE IF Len(fronts[i]) <= size
         THEN /\ Len(population) >= Len(fronts[i])
              /\ IsPermutation(subList(population, 0, Len(fronts[i])),
                               fronts[i])
              /\ FilledFrom(fronts, i + 1,
                            subList(population, Len(fronts[i]), Len(population)),
                            size - Len(fronts[i]))
         ELSE /\ Len(population) = size
              /\ IsAscendingPrefix(population, fronts[i])

\* C9: the next parent population takes the fronts in their order: every
\* front that still fits is taken whole, the first front that does not fit
\* gives the chromosomes with the smallest distances, in ascending order, up
\* to populationSize, and no later front gives any.
C9_SurvivorSelection ==
    [][(algorithm = "MOSA" /\ pc = "sort") =>
           FilledFrom(preferenceSorting(chromosomes, archive, populationSize),
                      1, reverse(parentPopulation'), populationSize)]_vars

\* a front is taken whole and the next one, whose chromosomes have different
\* distances, does not fit
C9_FrontCut ==
    /\ algorithm = "MOSA"
    /\ pc = "sort"
    /\ LET fronts == preferenceSorting(chromosomes, archive, populationSize)
       IN  /\ Len(fronts) >= 2
           /\ Len(fronts[1]) < populationSize
           /\ Len(fronts[1]) + Len(fronts[2]) > populationSize
           /\ \E c, d \in Elems(fronts[2]) :
                  Distance(c, fronts[2]) < Distance(d, fronts[2])

(***************************************************************************)
(* Termination under FixedIterationsStoppingCondition                      *)
(***************************************************************************)
\* C10: a search with FixedIterationsStoppingCondition(maxIterations) that
\* starts with no iterations done returns (unless an evaluation throws), the
\* number of iterations is then maxIterations, and it never exceeds
\* maxIterations.
C10_FixedIterations ==
    /\ (pc = "loop" /\ iterations = 0) ~> (pc \in {"done", "failed"})
    /\ [](pc = "done" /\ stoppingCondition = "fixed-iteration"
              => iterations = maxIterations)
    /\ [](iterations <= maxIterations)

\* a search has returned after more than one iteration
C10_Returned ==
    /\ pc = "done"
    /\ stoppingCondition = "fixed-iteration"
    /\ maxIterations > 1
    /\ iterations = maxIterations

(***************************************************************************)
(* Polling of the stopping condition                                       *)
(***************************************************************************)
\* the positions inside a pass of the loop, and the positions a statement
\* at each leads to (the loop of generateOffspringPopulation stays at
\* "offspring" until the offspring population is full)
PassPositions == {"offspring", "archive", "sort", "generate", "check"}
PositionsAfter(position) ==
    CASE position = "offspring" -> {"offspring", "archive"}
      [] position = "archive" -> {"sort"}
      [] position = "sort" -> {"loop"}
      [] position = "generate" -> {"check"}
      [] position = "check" -> {"loop"}

\* a step of a search that polls its stopping condition at the head of the
\* loop only
PolledAtLoopHead ==
    /\ (pc' = "done") =>
           /\ pc = "loop"
           /\ stoppingConditionIsFinished
           /\ UNCHANGED <<iterations, mosaVars, randomVars>>
    /\ (pc = "loop" /\ stoppingConditionIsFinished) => (pc' = "done")
    /\ (pc \in PassPositions) => (pc' \in PositionsAfter(pc) \cup {"failed"})
    /\ (pc = "done" /\ pc' \notin {"loop", "failed"}) =>
           UNCHANGED <<iterations, mosaVars, randomVars>>

\* C11: findSolution and generateTests leave the loop only at its head and
\* only when the stopping condition has finished, and then change nothing
\* else; a statement inside a pass leads to the next position of the pass,
\* whatever the stopping condition says, and a pass that has started comes
\* back to the head of the loop (unless an evaluation throws); once the
\* search has returned nothing is generated, evaluated or archived until it
\* is called again.
C11_PolledAtBoundariesOnly ==
    /\ [][PolledAtLoopHead]_vars
    /\ (pc \in PassPositions) ~> (pc \in {"loop", "failed"})

\* the stopping condition has finished inside a pass, before the chromosome
\* of the pass is generated
C11_FinishedInsidePass ==
    /\ pc = "generate"
    /\ stoppingConditionIsFinished
    /\ iterations > 1

(***************************************************************************)
(* Monotonicity of the observables and of the stopping conditions          *)
(***************************************************************************)
\* the goals that have an optimal chromosome in a solution
OptimalGoals(solution) ==
    {g \in Goals :
        \E i \in DOMAIN solution : isOptimal(getFitness(g, solution[i]))}

\* C12: in a run the number of iterations never decreases, a goal that has
\* an optimal chromosome in the current solution keeps having one, and each
\* of FixedIterations, OptimalSolution and their OneOf, once finished, is
\* finished after every later step.
C12_Monotone ==
    [][pc # "done" =>
       /\ iterations' >= iterations
       /\ OptimalGoals(getCurrentSolution) \subseteq
              OptimalGoals(getCurrentSolution')
       /\ isFinished(iterations, maxIterations) =>
              isFinished(iterations', maxIterations')
       /\ optimalSolutionIsFinished(getCurrentSolution) =>
              optimalSolutionIsFinished(getCurrentSolution')
       /\ oneOfIsFinished(iterations, maxIterations, getCurrentSolution) =>
              oneOfIsFinished(iterations', maxIterations',
                              getCurrentSolution')
       /\ stoppingConditionIsFinished => stoppingConditionIsFinished']_vars

\* OptimalSolution has finished while a search under FixedIterations goes
\* on to another pass
C12_FinishedAndRunning ==
    /\ algorithm = "MOSA"
    /\ pc = "sort"
    /\ stoppingCondition = "fixed-iteration"
    /\ iterations > 0
    /\ optimalSolutionIsFinished(getCurrentSolution)
    /\ ~isFinished(iterations, maxIterations)

(***************************************************************************)
(* Unsupported operations                                                  *)
(***************************************************************************)
\* C14: a call of an operation the algorithm does not support
\* (MOSA.setFitnessFunction; MIO.setFitnessFunction, MIO.setSelectionOperator;
\* findSolution and every setter of RandomTestGenerator) throws
\* NotSupportedFunctionException and changes nothing of the algorithm's state.
C14_UnsupportedThrows ==
    /\ [](called # "none" => thrown = "NotSupportedFunctionException")
    /\ [][called' # called =>
             UNCHANGED <<operatorVars, configVars, iterations, mosaVars, randomVars>>]_vars

\* setFitnessFunction was called on a MOSA whose search has filled the
\* archive
C14_CalledAfterSearch ==
    /\ algorithm = "MOSA"
    /\ called = "setFitnessFunction"
    /\ thrown # "none"
    /\ Len(archive) > 0
    /\ iterations > 0

(***************************************************************************)
(* Bookkeeping of RandomTestGenerator.generateTests                        *)
(***************************************************************************)
\* the uncovered goals a chromosome covers
CoveredBy(chromosome, uncovered) ==
    {g \in Elems(uncovered) : isCovered(g, chromosome)}

\* a step of generateTests that keeps the books of the claim
GoalBookkeeping ==
    /\ (pc = "generate") =>
           /\ Len(testChromosome') = 1
           /\ testChromosome'[1].id \notin Ids(tests)
    /\ (pc = "check") =>
           LET covered == CoveredBy(testChromosome[1], uncoveredGoals)
           IN  /\ Elems(uncoveredGoals') = Elems(uncoveredGoals) \ covered
               /\ Len(uncoveredGoals') =
                      Len(uncoveredGoals) - Cardinality(covered)
               /\ Len(tests') = Len(tests) + Cardinality(covered)
               /\ Len(testSuite') = Len(testSuite) + Cardinality(covered)
               /\ testChromosome' = <<>>
    /\ (pc \notin {"idle", "check"}) =>
           UNCHANGED <<tests, testSuite, uncoveredGoals>>

\* C15: every pass of generateTests generates exactly one chromosome and
\* checks it against the goals still uncovered only: the goals it covers
\* among them are counted once each and leave uncoveredGoals at the end of
\* the pass, and a goal that has left is never counted again.
C15_GoalBookkeeping ==
    [][algorithm = "RANDOM" => GoalBookkeeping]_vars

\* the chromosome of a pass covers a goal that an earlier pass has covered
\* and a goal that is still uncovered
C15_CoversCoveredGoal ==
    /\ pc = "check"
    /\ \E g \in Goals \ Elems(uncoveredGoals) :
           isCovered(g, testChromosome[1])
    /\ CoveredBy(testChromosome[1], uncoveredGoals) # {}

\* the goals a chromosome covers
GoalsCoveredBy(chromosome) == {g \in Goals : isCovered(g, chromosome)}

\* no chromosome occurs twice in a list of tests, and every test covers a
\* goal that no earlier test of the list covers
Deduplicated(list) ==
    /\ \A i, j \in DOMAIN list : (i # j) => (list[i].id # list[j].id)
    /\ \A j \in DOMAIN list :
           \E g \in GoalsCoveredBy(list[j]) :
               \A i \in 1 .. (j - 1) : g \notin GoalsCoveredBy(list[i])

\* C16: the test suite generateTests returns and the list getCurrentSolution
\* returns hold no chromosome twice, and every test of them covers a goal
\* that no earlier test covers.
C16_Deduplicated ==
    (algorithm = "RANDOM") => Deduplicated(testSuite) /\ Deduplicated(tests)

\* C17: at every iteration boundary of generateTests the number of tests
\* is the number of goals minus the number of goals still uncovered, and it
\* never exceeds the number of goals.
C17_SuiteSize ==
    (algorithm = "RANDOM" /\ pc \in {"loop", "done"}) =>
        /\ Len(testSuite) = Cardinality(Goals) - Len(uncoveredGoals)
        /\ Len(tests) = Len(testSuite)
        /\ Len(testSuite) <= Cardinality(Goals)

\* generateTests has returned a suite for all goals after a pass that added
\* no test
C17_SuiteAfterIdlePass ==
    /\ algorithm = "RANDOM"
    /\ pc = "done"
    /\ iterations > Len(testSuite)
    /\ Len(testSuite) = Cardinality(Goals)

(***************************************************************************)
(* SinglePointRelativeCrossover                                            *)
(***************************************************************************)
\* the number of genes of a list that equal a gene
GeneCount(genes, gene) == Cardinality({i \in DOMAIN genes : genes[i] = gene})

\* C18: the two offspring of SinglePointRelativeCrossover have together as
\* many genes as the two parents, and as many of each kind.
C18_GenesConserved ==
    (offspringGenes # <<>>) =>
        /\ Len(offspringGenes[1]) + Len(offspringGenes[2])
               = Len(bits1) + Len(bits2)
        /\ \A gene \in BOOLEAN :
               GeneCount(offspringGenes[1], gene)
                       + GeneCount(offspringGenes[2], gene)
                   = GeneCount(bits1, gene) + GeneCount(bits2, gene)

\* the parents [T, T] and [F, F, F, F], cut at different places, have
\* offspring with 2 T and 4 F
C18_TwoTrueFourFalse ==
    /\ bits1 = <<TRUE, TRUE>>
    /\ bits2 = <<FALSE, FALSE, FALSE, FALSE>>
    /\ offspringGenes # <<>>
    /\ cutPoint(2, splitPoint) = 1
    /\ cutPoint(4, splitPoint) = 2
    /\ GeneCount(offspringGenes[1] \o offspringGenes[2], TRUE) = 2
    /\ GeneCount(offspringGenes[1] \o offspringGenes[2], FALSE) = 4

\* the larger of two numbers
Longest(a, b) == IF a >= b THEN a ELSE b

\* C19: with each parent cut at floor(r * its length), neither offspring of
\* SinglePointRelativeCrossover is longer than the longer parent.
C19_LengthBound ==
    (offspringGenes # <<>>) =>
        \A i \in 1 .. 2 :
            Len(offspringGenes[i]) <= Longest(Len(bits1), Len(bits2))

\* an offspring is as long as the longer parent, and longer than the
\* shorter
C19_OffspringOfLongestLength ==
    /\ offspringGenes # <<>>
    /\ Len(bits1) < Len(bits2)
    /\ Len(offspringGenes[2]) = Len(bits2)
    /\ Len(offspringGenes[1]) < Len(bits2)
    /\ cutPoint(Len(bits1), splitPoint) > 0

\* C20: for parents of at least two genes SinglePointRelativeCrossover cuts
\* neither at 0 nor at the end, so the first offspring holds a gene of the
\* first parent and a gene of the second.
C20_MixesBothParents ==
    (offspringGenes # <<>> /\ Len(bits1) >= 2 /\ Len(bits2) >= 2) =>
        /\ cutPoint(Len(bits1), splitPoint) \in 1 .. (Len(bits1) - 1)
        /\ cutPoint(Len(bits2), splitPoint) \in 1 .. (Len(bits2) - 1)
        /\ (GeneCount(bits1, TRUE) = Len(bits1)
              /\ GeneCount(bits2, FALSE) = Len(bits2)) =>
               /\ GeneCount(offspringGenes[1], TRUE) > 0
               /\ GeneCount(offspringGenes[1], FALSE) > 0

(***************************************************************************)
(* Errors of the fitness evaluation                                        *)
(***************************************************************************)
\* the chromosomes of a list whose evaluation fails
Failed(list) == {list[i] : i \in {j \in DOMAIN list : Len(list[j].fit) = 0}}

\* C21: when the evaluation of a chromosome fails the search does not end
\* with the error: the chromosome stays out of the archive and the loop goes
\* on.
C21_ExecutionFailureRecovered ==
    (Failed(parentPopulation \o offspringPopulation) # {}) =>
        /\ pc # "failed"
        /\ thrown = "none"
        /\ Failed(MapValues(archive)) = {}

\* C22: a search whose fitness functions are StatementCoverageFitness ends
\* with NotYetImplementedException at the first evaluation, in the archive
\* update of the initial population: no iteration has run, nothing is
\* archived, and nothing is done after the exception.
C22_NotYetImplementedSurfaces ==
    /\ [](fitnessFunction = "StatementCoverageFitness"
             /\ pc \notin {"idle", "called"}
          => /\ pc = "failed"
             /\ thrown = "NotYetImplementedException"
             /\ iterations = 0
             /\ archive = <<>>
             /\ bestIndividuals = <<>>
             /\ offspringPopulation = <<>>)
    /\ [][pc # "failed"]_vars

\* findSolution has thrown NotYetImplementedException on an initial
\* population that holds a chromosome optimal for a goal
C22_ThrownOnInitialPopulation ==
    /\ fitnessFunction = "StatementCoverageFitness"
    /\ pc = "failed"
    /\ thrown = "NotYetImplementedException"
    /\ Len(parentPopulation) > 1
    /\ \E i \in DOMAIN parentPopulation :
           isOptimal(parentPopulation[i].fit[1])

(***************************************************************************)
(* Configuration validation                                                *)
(***************************************************************************)
\* the configuration misses a required key or has a value out of its range
InvalidConfiguration(dict0) ==
    \/ dict0.populationSize = <<>> \/ dict0.populationSize[1] < 1
    \/ dict0.chromosomeLength = <<>> \/ dict0.chromosomeLength[1] < 1
    \/ dict0.crossover = <<>>
    \/ dict0.crossover[1].probability = <<>>
    \/ dict0.crossover[1].probability[1] \notin 0 .. 100
    \/ dict0.mutation = <<>>
    \/ dict0.mutation[1].probability = <<>>
    \/ dict0.mutation[1].probability[1] \notin 0 .. 100
    \/ dict0.stoppingCondition = <<>>
    \/ dict0.selection = <<>>
    \/ /\ dict0.selection[1].operator = <<"tournament">>
       /\ \/ dict0.selection[1].tournamentSize = <<>>
          \/ dict0.selection[1].tournamentSize[1] < 2

\* C23: building the search properties and the selection operator from a
\* configuration that misses a required key or holds a value out of its
\* range (population-size < 1, chromosome-length < 1, a crossover or
\* mutation probability outside [0,1], tournamentSize < 2) raises an error:
\* neither call returns properties or an operator.
C23_InvalidConfigurationRaises ==
    /\ properties # <<>> /\ selectionOperator # <<>>
    /\ InvalidConfiguration(dict)
    => \/ properties[1].exception # "none"
       \/ selectionOperator[1].exception # "none"

(***************************************************************************)
(* The solution of a search                                                *)
(***************************************************************************)
\* C24: once findSolution has returned, getCurrentSolution() returns the
\* list that findSolution returned.
C24_CurrentSolutionIsReturned ==
    algorithm = "MOSA" /\ returned # <<>> => getCurrentSolution = returned[1]

\* findSolution has returned after passes of the loop, with chromosomes in
\* the list
C24_ReturnedAfterPass ==
    /\ algorithm = "MOSA"
    /\ pc = "done"
    /\ iterations > 0
    /\ returned # <<>>
    /\ Len(returned[1]) > 0

(***************************************************************************)
(* The offspring population                                                *)
(***************************************************************************)
\* a step of the loop of generateOffspringPopulation appends two children,
\* or one when a second would exceed the size of the parent population
AppendedInPairs ==
    (pc = "offspring" /\ pc' \in {"offspring", "archive"}) =>
        /\ Len(offspringPopulation') = Len(offspringPopulation) +
               (IF Len(offspringPopulation) + 1 < Len(parentPopulation)
                THEN 2 ELSE 1)
        /\ SubSeq(offspringPopulation', 1, Len(offspringPopulation)) =
               offspringPopulation

\* C25: generateOffspringPopulation returns as many chromosomes as the parent
\* population has; the children are appended in pairs, the second child of
\* the last pair is left out when it would exceed that size; with crossover
\* and mutation off, the children are the selected parents themselves.
C25_OffspringPopulation ==
    /\ [](pc \in {"archive", "sort"} =>
              Len(offspringPopulation) = Len(parentPopulation))
    /\ [](pc = "offspring" => Len(offspringPopulation) < Len(parentPopulation))
    /\ [][AppendedInPairs]_vars
    /\ [](crossoverProbability = 0 /\ mutationProbability = 0 =>
              \A i \in DOMAIN offspringPopulation :
                  offspringPopulation[i] \in Elems(parentPopulation))

\* the offspring of a parent population of odd size, the parents themselves
C25_OddOffspring ==
    /\ pc = "archive"
    /\ Len(parentPopulation) = 3
    /\ Len(offspringPopulation) = 3
    /\ crossoverProbability = 0

(***************************************************************************)
(* Parent selection                                                        *)
(***************************************************************************)
\* a pass of the loop of generateOffspringPopulation selects its parents by
\* a random index in iteration 0 and with the selection operator afterwards
SelectedByIteration ==
    (pc = "offspring" /\ pc' \in {"offspring", "archive"}) =>
        parentsSelectedBy' =
            IF iterations = 0 THEN "nextInt" ELSE "selectionOperator"

RECURSIVE FrontAt(_, _, _)
FrontAt(fronts, k, i) ==
    IF k >= Len(fronts) \/ i <= Len(fronts[k]) THEN k
    ELSE FrontAt(fronts, k + 1, i - Len(fronts[k]))

\* the population holds the chromosomes of later fronts before those of
\* earlier fronts, and within a front larger distances before smaller ones
WorstFirst(fronts, population) ==
    \A p \in DOMAIN population :
        LET frontP == FrontAt(fronts, 1, Len(population) + 1 - p)
        IN  /\ contains(fronts[frontP], population[p])
            /\ \A q \in DOMAIN population :
                   LET frontQ == FrontAt(fronts, 1, Len(population) + 1 - q)
                   IN  (p < q /\ frontP = frontQ) =>
                           Distance(population[p], fronts[frontP]) >=
                               Distance(population[q], fronts[frontP])

\* a pass ends with the parent population worst first
ReversedAfterFill ==
    (algorithm = "MOSA" /\ pc = "sort") =>
        WorstFirst(preferenceSorting(chromosomes, archive, populationSize),
                   parentPopulation')

\* the parent population is as the pass left it while parents are selected
KeptForSelection ==
    (algorithm = "MOSA" /\ pc \in {"loop", "offspring", "archive"}) =>
        parentPopulation' = parentPopulation

SortedByDistance(list, front) ==
    /\ IsPermutation(list, front)
    /\ \A i \in 1 .. (Len(list) - 1) :
           Distance(list[i], front) <= Distance(list[i + 1], front)

\* the longest front whose orders are enumerated
MaxSortedFront == 6

\* C28: subVectorDominanceSorting leaves the front a permutation of itself
\* in which the SVD score never decreases; the score of a chromosome is the
\* largest number of goals on which another chromosome of the front has a
\* strictly better fitness, and 0 in a front of one.
C28_SortedBySVD ==
    (algorithm = "MOSA" /\ pc = "sort") =>
        LET fronts == preferenceSorting(chromosomes, archive, populationSize)
        IN  \A k \in DOMAIN fronts :
                /\ Len(fronts[k]) = 1 => Distance(fronts[k][1], fronts[k]) = 0
                /\ Len(fronts[k]) <= MaxSortedFront =>
                       \A list \in subVectorDominanceSorting(fronts[k],
                                                             Len(fronts[k])) :
                           SortedByDistance(list, fronts[k])

\* a front of three chromosomes or more that do not all have the same score
C28_ScoresDiffer ==
    /\ algorithm = "MOSA"
    /\ pc = "sort"
    /\ \E front \in Elems(preferenceSorting(chromosomes, archive,
                                            populationSize)) :
           /\ Len(front) >= 3
           /\ \E i, j \in DOMAIN front :
                  Distance(front[i], front) < Distance(front[j], front)

(***************************************************************************)
(* Fast non-dominated sorting                                              *)
(***************************************************************************)
\* the chromosomes preferenceSorting hands to fastNonDominatedSorting
ChromosomesForNonDominatedSorting ==
    preferenceKeys(chromosomes, archive, 1, <<>>, chromosomes).rest

\* no chromosome of a front dominates another of it, none is dominated by a
\* chromosome of a later front, and every chromosome of a front after the
\* first is dominated by a chromosome of the front before
DominanceOrdered(fronts, archive0) ==
    /\ \A k \in DOMAIN fronts :
           \A c, d \in Elems(fronts[k]) : ~dominates(c, d, archive0)
    /\ \A k, l \in DOMAIN fronts :
           k < l => \A c \in Elems(fronts[k]) :
                        \A d \in Elems(fronts[l]) : ~dominates(d, c, archive0)
    /\ \A k \in DOMAIN fronts :
           k > 1 => \A c \in Elems(fronts[k]) :
                        \E d \in Elems(fronts[k - 1]) : dominates(d, c, archive0)

\* C29: the fronts of fastNonDominatedSorting are antichains in dominance
\* order: within a front no chromosome dominates another, no chromosome is
\* dominated by one of a later front, and every chromosome of a front after
\* the first is dominated by at least one of the front before.
C29_DominanceOrdered ==
    (algorithm = "MOSA" /\ pc = "sort") =>
        DominanceOrdered(
            fastNonDominatedSorting(ChromosomesForNonDominatedSorting, archive),
            archive)

(***************************************************************************)
(* Preference sorting with a large preferred front                         *)
(***************************************************************************)
\* the chromosomes of the list in their order, without the first occurrence
\* of each chromosome of the front
Remaining(list, front) ==
    filter(list, {i \in DOMAIN list :
                     ~(contains(front, list[i]) /\ indexOf(list, list[i]) = i)})

\* the fronts preferenceSorting is to return for a population size
PreferredThenRest(fronts, bestFront, rest, size, archive0) ==
    IF Len(bestFront) > size
    THEN /\ Len(fronts) = 2
         /\ fronts[1] = bestFront
         /\ fronts[2] = rest
    ELSE /\ Len(fronts) >= (IF Len(bestFront) > 0 THEN 1 ELSE 0)
         /\ Len(bestFront) > 0 => fronts[1] = bestFront
         /\ subList(fronts, IF Len(bestFront) > 0 THEN 1 ELSE 0, Len(fronts)) =
                fastNonDominatedSorting(rest, archive0)

\* C30: when the preferred front has more chromosomes than populationSize,
\* preferenceSorting returns two fronts, the preferred front and then all
\* the remaining chromosomes in their original order; otherwise the
\* remaining chromosomes are split by fastNonDominatedSorting.  Checked for
\* the lists of every pass and every population size up to the one of the
\* search.
C30_LargePreferredFront ==
    (algorithm = "MOSA" /\ pc = "sort") =>
        \A size \in 1 .. populationSize :
            PreferredThenRest(
                preferenceSorting(chromosomes, archive, size),
                preferenceBestFront(chromosomes, archive),
                Remaining(chromosomes, preferenceBestFront(chromosomes, archive)),
                size, archive)

\* a preferred front of two chromosomes for a population size of 1, and
\* remaining chromosomes that fastNonDominatedSorting would not leave in one
\* front
C30_RestUnsorted ==
    /\ algorithm = "MOSA"
    /\ pc = "sort"
    /\ Len(preferenceBestFront(chromosomes, archive)) = 2
    /\ LET fronts == preferenceSorting(chromosomes, archive, 1)
       IN  /\ Len(fronts) = 2
           /\ Len(fronts[2]) >= 2
           /\ fastNonDominatedSorting(fronts[2], archive) # <<fronts[2]>>

(***************************************************************************)
(* The fronts of the combined population                                   *)
(***************************************************************************)
\* C31: the fronts preferenceSorting returns for the combined population
\* hold every chromosome of it exactly as often as it occurs in it, also
\* when an object occurs several times: none is lost, none is in two fronts.
C31_FrontsPartition ==
    (algorithm = "MOSA" /\ pc = "sort") =>
        IsPermutation(
            flatten(preferenceSorting(chromosomes, archive, populationSize)),
            chromosomes)

(***************************************************************************)
(* The state a call of findSolution starts from                            *)
(***************************************************************************)
\* a call of findSolution starts its loop with the run state of a new
\* instance
FreshRun ==
    (algorithm = "MOSA" /\ pc \in {"idle", "done"} /\ pc' = "loop") =>
        /\ bestIndividuals' = <<>>
        /\ archive' = updateArchive(<<>>, parentPopulation')
        /\ iterations' = 0

\* C32: every call of findSolution starts from a fresh run state
\* (bestIndividuals empty, the archive that of the initial population alone,
\* no iteration counted), so a second call with the same
\* FixedIterationsStoppingCondition(maxIterations) performs maxIterations
\* iterations again.
C32_RunReset == [][FreshRun]_vars

(***************************************************************************)
(* Construction of the stopping condition                                  *)
(***************************************************************************)
\* the type of the dictionary is one of the four, and so are the types of
\* the conditions of a 'one-of', at every depth
RECURSIVE KnownTypes(_)
KnownTypes(dictionary) ==
    /\ dictionary.type \in {<<"fixed-iteration">>, <<"fixed-time">>,
                            <<"optimal">>, <<"one-of">>}
    /\ dictionary.type = <<"one-of">> =>
           \A i \in DOMAIN dictionary.conditions :
               KnownTypes(dictionary.conditions[i])

\* the stopping condition is the one the dictionary describes
RECURSIVE BuiltFrom(_, _)
BuiltFrom(condition, dictionary) ==
    CASE dictionary.type = <<"fixed-iteration">> ->
             /\ condition.class = "FixedIterationsStoppingCondition"
             /\ condition.argument = dictionary.iterations
      [] dictionary.type = <<"fixed-time">> ->
             /\ condition.class = "FixedTimeStoppingCondtion"
             /\ condition.argument = dictionary.duration
      [] dictionary.type = <<"optimal">> ->
             condition.class = "OptimalSolutionStoppingCondition"
      [] dictionary.type = <<"one-of">> ->
             /\ condition.class = "OneOfStoppingCondition"
             /\ Len(condition.conditions) = Len(dictionary.conditions)
             /\ \A i \in DOMAIN dictionary.conditions :
                    BuiltFrom(condition.conditions[i],
                              dictionary.conditions[i])
      [] OTHER -> FALSE

\* C33: _getStoppingCondition maps 'fixed-iteration' to
\* FixedIterations(iterations), 'fixed-time' to FixedTime(duration),
\* 'optimal' to OptimalSolution and 'one-of' to a OneOf over the conditions
\* built from its list, in list order; another or a missing type, at the top
\* or inside a 'one-of', raises a ConfigException and no stopping condition
\* is returned.
C33_StoppingConditionBuilt ==
    (properties # <<>> /\ dict \in StoppingConfigurations) =>
        IF KnownTypes(dict.stoppingCondition[1])
        THEN /\ properties[1].exception = "none"
             /\ Len(properties[1].stoppingCondition) = 1
             /\ BuiltFrom(properties[1].stoppingCondition[1],
                          dict.stoppingCondition[1])
        ELSE /\ properties[1].exception = "ConfigException"
             /\ properties[1].stoppingCondition = <<>>

\* a 'one-of' whose second condition is a 'one-of' of a condition of an
\* unknown type has raised the exception
C33_NestedUnknownType ==
    /\ properties # <<>>
    /\ dict \in StoppingConfigurations
    /\ dict.stoppingCondition[1].type = <<"one-of">>
    /\ Len(dict.stoppingCondition[1].conditions) = 2
    /\ dict.stoppingCondition[1].conditions[1].type = <<"fixed-iteration">>
    /\ dict.stoppingCondition[1].conditions[2] =
           OneOfDictionary(<<StoppingConditionLeaf(<<"fixed-size">>)>>)
    /\ properties[1].exception = "ConfigException"

(***************************************************************************)
(* Choice of the algorithm, the test generator and the operators           *)
(***************************************************************************)
\* the names of the algorithms with their SearchAlgorithmType, and the names
\* of the test generators with their class
AlgorithmTypes ==
    {<<"random", "RANDOM">>, <<"one-plus-one", "ONE_PLUS_ONE">>,
     <<"simplega", "SIMPLEGA">>, <<"mosa", "MOSA">>, <<"mio", "MIO">>}
TestGenerators ==
    {<<"random", "RandomTestGenerator">>,
     <<"iterative", "IterativeSearchBasedTestGenerator">>,
     <<"many-objective", "ManyObjectiveTestGenerator">>}

\* the call has returned the value the table gives for the name, or the
\* name is not in the table (or missing) and the call has thrown
ReturnedOrThrown(name, value, thrown0, table, exception0) ==
    IF name # <<>> /\ \E pair \in table : pair[1] = name[1]
    THEN thrown0 = "none" /\ <<name[1], value>> \in table
    ELSE thrown0 = exception0 /\ value = "none"

\* C34: getAlgorithm returns the SearchAlgorithmType of 'random',
\* 'one-plus-one', 'simplega', 'mosa' and 'mio' and throws an
\* IllegalArgumentException for every other value; getTestGenerator returns
\* the generator of 'random', 'iterative' and 'many-objective' and throws a
\* ConfigException for every other value; neither falls back to a default.
C34_NoDefaultAlgorithm ==
    /\ (wired # <<>> /\ wired[1].getter = "getAlgorithm") =>
           ReturnedOrThrown(dict.algorithm, wired[1].result.type,
                            wired[1].result.exception, AlgorithmTypes,
                            "IllegalArgumentException")
    /\ (wired # <<>> /\ wired[1].getter = "getTestGenerator") =>
           ReturnedOrThrown(dict.testGenerator, wired[1].result.class,
                            wired[1].result.exception, TestGenerators,
                            "ConfigException")

\* the chromosome generator was asked for and the call has returned
GeneratorReturned ==
    /\ wired # <<>>
    /\ wired[1].getter = "getChromosomeGenerator"
    /\ wired[1].result.exception = "none"

\* C35: an unrecognized or missing mutation.operator yields an
\* IntegerListMutation, crossover.operator a SinglePointCrossover,
\* selection.operator a RankSelection, chromosome a TestChromosomeGenerator
\* and fitness-function.type SINGLE_BIT; none of them raises a
\* configuration error.
C35_DefaultOperators ==
    /\ (selectionOperator # <<>> /\ dict.selection # <<>>
           /\ dict.selection[1].operator \notin {<<"rank">>, <<"tournament">>})
       => /\ selectionOperator[1].exception = "none"
          /\ selectionOperator[1].operator = "RankSelection"
    /\ (wired # <<>> /\ wired[1].getter = "getFitnessFunctionType"
           /\ dict.fitnessFunction # <<>>
           /\ dict.fitnessFunction[1].type \notin
                  {<<"statement">>, <<"one-max">>, <<"single-bit">>})
       => /\ wired[1].result.exception = "none"
          /\ wired[1].result.type = "SINGLE_BIT"
    /\ (wired # <<>> /\ wired[1].getter = "getChromosomeGenerator"
           /\ dict \in GeneratorConfigurations)
       => wired[1].result.exception =
              IF dict.integerRange # <<>>
                     \/ dict.mutation[1].operator = <<"bitflip">>
              THEN "none" ELSE "TypeError"
    /\ (GeneratorReturned
           /\ dict.chromosome \notin
                  {<<"bitstring">>, <<"integerlist">>,
                   <<"variablelengthtest">>, <<"test">>})
       => wired[1].result.class = "TestChromosomeGenerator"
    /\ (GeneratorReturned
           /\ dict.mutation[1].operator \notin
                  {<<"bitflip">>, <<"variablelength">>, <<"integerlist">>})
       => /\ wired[1].result.mutationOp[1].class = "IntegerListMutation"
          /\ wired[1].result.mutationOp[1].min = dict.integerRange[1].min
          /\ wired[1].result.mutationOp[1].max = dict.integerRange[1].max
    /\ (GeneratorReturned
           /\ dict.crossover[1].operator \notin
                  {<<"singlepointrelative">>, <<"singlepoint">>})
       => wired[1].result.crossoverOp[1].class = "SinglePointCrossover"
    /\ (wired # <<>> /\ wired[1].result.exception = "ConfigException")
       => \/ wired[1].getter = "getTestGenerator"
          \/ /\ wired[1].getter = "getChromosomeGenerator"
             /\ dict.stoppingCondition # <<>>
             /\ ~KnownTypes(dict.stoppingCondition[1])
    /\ selectionOperator # <<>> =>
           selectionOperator[1].exception # "ConfigException"

\* a chromosome generator was built from a dictionary none of whose three
\* names is known
C35_AllDefaults ==
    /\ GeneratorReturned
    /\ dict.chromosome = <<"tree">>
    /\ dict.mutation[1].operator = <<"swap">>
    /\ dict.crossover[1].operator = <<>>
    /\ wired[1].result.class = "TestChromosomeGenerator"
    /\ wired[1].result.mutationOp[1].class = "IntegerListMutation"

(***************************************************************************)
(* Random inputs                                                           *)
(***************************************************************************)
\* the step registers an input
Registers == Len(registrations') = Len(registrations) + 1

\* lastInputTime changes only in a step that registers an input, and is then
\* the elapsed time of the call
LastInputTimeOfRegistration ==
    /\ lastInputTime' # lastInputTime => Registers
    /\ Registers =>
           /\ lastInputTime' = timeElapsed
           /\ registrations'[Len(registrations')].time = timeElapsed

\* no input is registered before the elapsed time has reached the interval,
\* and two successive registrations are at least the interval apart
RateLimited ==
    /\ \A i \in DOMAIN registrations : registrations[i].time >= frequency
    /\ \A i \in DOMAIN registrations :
           i > 1 =>
               registrations[i].time - registrations[i - 1].time >= frequency

\* C36: with a fixed frequency f and an elapsed time that does not decrease,
\* performRandomInput registers no input before the elapsed time f, two
\* successive registrations are at least f apart, and lastInputTime changes
\* only in a call that registers an input and is then set to the elapsed
\* time of that call.
C36_RateLimit == [](RateLimited) /\ [][LastInputTimeOfRegistration]_vars

\* two inputs were registered exactly one interval apart, the first as early
\* as the interval allows
C36_TwoRegistrations ==
    /\ Len(registrations) >= 2
    /\ registrations[1].time = frequency
    /\ registrations[2].time = registrations[1].time + frequency
    /\ lastInputTime = registrations[2].time

\* the sum of the weights of the inputs among the first n that are not
\* active
RECURSIVE InactiveWeight(_)
InactiveWeight(n) ==
    IF n = 0 THEN 0
    ELSE InactiveWeight(n - 1) +
         (IF randomInputs[n].active THEN 0 ELSE randomInputs[n].weight)

\* no input is registered, every input is active, or the weights of the
\* inactive inputs sum to 0
NothingToRegister ==
    \/ randomInputs = <<>>
    \/ \A i \in DOMAIN randomInputs : randomInputs[i].active
    \/ InactiveWeight(Len(randomInputs)) = 0

\* what a call may do: register at most one input, one that is not active
\* and has a positive weight, and nothing at all when there is nothing to
\* register
SelectsInactivePositive ==
    /\ Len(registrations') <= Len(registrations) + 1
    /\ Registers =>
           LET input == registrations'[Len(registrations')].input
           IN  /\ input \in DOMAIN randomInputs
               /\ ~randomInputs[input].active
               /\ randomInputs[input].weight > 0
               /\ \A i \in DOMAIN randomInputs :
                      i # input => randomInputs'[i] = randomInputs[i]
    /\ NothingToRegister =>
           /\ registrations' = registrations
           /\ lastInputTime' = lastInputTime
           /\ \A i \in DOMAIN randomInputs' :
                  randomInputs'[i].active =>
                      (i \in DOMAIN randomInputs /\ randomInputs[i].active)

\* C37: performRandomInput registers at most one input per call, and only an
\* input that is inactive at the time of the call and has a positive weight;
\* when no random inputs are registered, every input is active, or the
\* weights of the inactive inputs sum to 0, the call registers nothing and
\* changes no state.
C37_SelectionSafety == [][SelectsInactivePositive]_vars

(***************************************************************************)
(* Statistics of the random search                                         *)
(***************************************************************************)
\* C38: the createdTestsCount recorded at the end of
\* RandomTestGenerator.generateTests equals the number of chromosomes drawn
\* from the chromosome generator during that run, one per loop iteration.
C38_CreatedTestsCount ==
    (algorithm = "RANDOM" /\ pc = "done") =>
        /\ createdTestsCount = <<drawn>>
        /\ drawn = iterations

====
